---- MODULE Spec2Model ----
(***************************************************************************)
(* Model of the document retrieval engine of LLM-Knowledge-Writer          *)
(* (src/vector_db_utils.py, class VectorDBManager): the chunker, the       *)
(* embedding adapter, the per-document vector collection store, the        *)
(* similarity search and the reranker adapter; of the multi-document       *)
(* search built on it (src/rag_functions.py, RAGFunctions); and of the     *)
(* chapter bookkeeping of LongNovelGenerator                               *)
(* (src/generators/long_novel_generator.py).                               *)
(*                                                                         *)
(* State.  fs is the vector store on disk, serial the number of            *)
(* create_vector_db calls made, last the last call that returned, calls    *)
(* the calls in flight when two of them run at once, novel the             *)
(* current_novel of a LongNovelGenerator.                                  *)
(*                                                                         *)
(* Representation.  A text is a sequence of one-character strings.  A      *)
(* persisted file is a record [st, data] with st "absent", "corrupt" (the  *)
(* file is there but json.load fails on it: a truncated or half-written    *)
(* dump) or "ok".  A score is the exact rational [num, den] of the signed  *)
(* square of the float the code computes (x |-> sgn(x) * x^2 is strictly   *)
(* increasing, so every comparison the code makes on scores is kept).      *)
(***************************************************************************)
EXTENDS Integers, Sequences, FiniteSets, TLC

VARIABLES fs, serial, last, calls, novel

vars == <<fs, serial, last, calls, novel>>

(***************************************************************************)
(* Bounds of the model and constants of the program.                       *)
(***************************************************************************)
MaxCreates == 2        \* create_vector_db calls in a behaviour

MaxTopK == 3           \* top_k ranges over -MaxNegTopK..MaxTopK

MaxNegTopK == 1

MaxResults == 2        \* length of a rerank provider's result list

MaxCandidates == 3     \* length of the candidate list given to rerank_results

\* _split_text is called on texts of at most MaxTokens tokens.
MaxTokens == 5

\* chunk_size ranges over (0 - MaxNegChunkSize)..MaxChunkSize.
MaxChunkSize == 5

MaxNegChunkSize == 1

batch_size == 20       \* line 262

PlaceholderDim == 1024 \* lines 249, 294, 303

HistoryLimit == 10     \* long_novel_generator.py line 253

\* Chapters one generator writes in a behaviour.
MaxChapters == 3

DocIds == {"d1"}

TopKs == (0 - MaxNegTopK)..MaxTopK

(***************************************************************************)
(* Python built-ins the code relies on.                                    *)
(***************************************************************************)
NL == "\n"

Whitespace == {" ", NL}

Min(a, b) == IF a <= b THEN a ELSE b

Max(a, b) == IF a >= b THEN a ELSE b

\* s[:k] of Python, for any integer k: a negative k counts from the end.
PySlice(s, k) ==
  IF k >= 0 THEN SubSeq(s, 1, Min(k, Len(s)))
  ELSE SubSeq(s, 1, Max(Len(s) + k, 0))

\* s[i:i+n] of Python for i >= 0, n >= 0 (i is 0-based).
PyRange(s, i, n) == SubSeq(s, i + 1, Min(i + n, Len(s)))

\* str.lower() on the alphabet of the model.
LowerChar(c) ==
  CASE c = "A" -> "a"
    [] c = "B" -> "b"
    [] c = "C" -> "c"
    [] OTHER -> c

Lower(s) == [i \in 1..Len(s) |-> LowerChar(s[i])]

\* sep occurs in s starting at the 1-based position i.
MatchAt(s, sep, i) ==
  /\ i >= 1
  /\ i + Len(sep) - 1 <= Len(s)
  /\ \A j \in 1..Len(sep) : s[i + j - 1] = sep[j]

\* Python's `sub in s`.
Contains(s, sub) == \E i \in 1..(Len(s) + 1) : MatchAt(s, sub, i)

\* The first position >= from at which sep occurs in s, or 0.
RECURSIVE FindFrom(_, _, _)
FindFrom(s, sep, from) ==
  IF from + Len(sep) - 1 > Len(s) THEN 0
  ELSE IF MatchAt(s, sep, from) THEN from
  ELSE FindFrom(s, sep, from + 1)

\* str.split(sep) for a non-empty sep: empty pieces are kept.
RECURSIVE Split(_, _)
Split(s, sep) ==
  LET p == FindFrom(s, sep, 1) IN
  IF p = 0 THEN <<s>>
  ELSE <<SubSeq(s, 1, p - 1)>> \o Split(SubSeq(s, p + Len(sep), Len(s)), sep)

RECURSIVE LStrip(_)
LStrip(s) ==
  IF s # <<>> /\ Head(s) \in Whitespace THEN LStrip(Tail(s)) ELSE s

RECURSIVE RStrip(_)
RStrip(s) ==
  IF s # <<>> /\ s[Len(s)] \in Whitespace THEN RStrip(SubSeq(s, 1, Len(s) - 1)) ELSE s

\* str.strip().
Strip(s) == RStrip(LStrip(s))

(***************************************************************************)
(* Chunker: VectorDBManager._split_text.                                   *)
(* The loop state is [chunks, cur, size] (chunks, current_chunk,           *)
(* current_size).  uuid4() of the call number `ser` for the n-th chunk is  *)
(* the fresh value <<ser, n>>.                                             *)
(***************************************************************************)
\* A uuid4 that repeats from one call to the next.
NewIdRepeating(ser, n) == <<0, n>>

\* str(uuid.uuid4()) of line 192, 206 and 221.
NewId(ser, n) == <<ser, n>>

\* The append without the guard `if current_chunk` of lines 190, 204, 219.
CloseChunkUnguarded(st, ser) ==
  Append(st.chunks,
         [id |-> NewId(ser, Len(st.chunks)),
          text |-> Strip(st.cur),
          metadata |-> [index |-> Len(st.chunks)]])

\* The new chunk put in front of the list instead of at its end.
CloseChunkInFront(st, ser) ==
  IF st.cur # <<>>
  THEN <<[id |-> NewId(ser, Len(st.chunks)),
          text |-> Strip(st.cur),
          metadata |-> [index |-> Len(st.chunks)]]>> \o st.chunks
  ELSE st.chunks

\* chunks.append({...}) when current_chunk is non-empty (lines 190-195, 204-209, 219-224).
CloseChunk(st, ser) ==
  IF st.cur # <<>>
  THEN Append(st.chunks,
              [id |-> NewId(ser, Len(st.chunks)),
               text |-> Strip(st.cur),
               metadata |-> [index |-> Len(st.chunks)]])
  ELSE st.chunks

\* One iteration of the sentence loop (lines 180-199).
SentenceStep(st, raw, chunk_size, ser) ==
  LET sentence == Strip(raw) IN
  IF sentence = <<>> THEN st
  ELSE IF st.size + Len(sentence) <= chunk_size
  THEN [st EXCEPT !.cur = st.cur \o sentence \o <<".", " ">>,
                  !.size = st.size + Len(sentence) + 2]
  ELSE [chunks |-> CloseChunk(st, ser),
        cur |-> sentence \o <<".", " ">>,
        size |-> Len(sentence) + 2]

RECURSIVE SentenceLoop(_, _, _, _)
SentenceLoop(st, sentences, chunk_size, ser) ==
  IF sentences = <<>> THEN st
  ELSE SentenceLoop(SentenceStep(st, Head(sentences), chunk_size, ser),
                    Tail(sentences), chunk_size, ser)

\* The paragraph loop body closing the current chunk at every paragraph
\* that is not split into sentences.
ParagraphStepNoAccumulation(st, raw, chunk_size, ser) ==
  LET paragraph == Strip(raw) IN
  IF paragraph = <<>> THEN st
  ELSE IF Len(paragraph) > chunk_size
  THEN SentenceLoop(st, Split(paragraph, <<".", " ">>), chunk_size, ser)
  ELSE [chunks |-> CloseChunk(st, ser),
        cur |-> paragraph \o <<NL, NL>>,
        size |-> Len(paragraph) + 2]

\* One iteration of the paragraph loop (lines 172-216).
ParagraphStep(st, raw, chunk_size, ser) ==
  LET paragraph == Strip(raw) IN
  IF paragraph = <<>> THEN st
  ELSE IF Len(paragraph) > chunk_size
  THEN SentenceLoop(st, Split(paragraph, <<".", " ">>), chunk_size, ser)
  ELSE IF st.size + Len(paragraph) > chunk_size
  THEN [chunks |-> CloseChunk(st, ser),
        cur |-> paragraph \o <<NL, NL>>,
        size |-> Len(paragraph) + 2]
  ELSE [st EXCEPT !.cur = st.cur \o paragraph \o <<NL, NL>>,
                  !.size = st.size + Len(paragraph) + 2]

RECURSIVE ParagraphLoop(_, _, _, _)
ParagraphLoop(st, paragraphs, chunk_size, ser) ==
  IF paragraphs = <<>> THEN st
  ELSE ParagraphLoop(ParagraphStep(st, Head(paragraphs), chunk_size, ser),
                     Tail(paragraphs), chunk_size, ser)

\* _split_text(text, chunk_size, chunk_overlap); chunk_overlap is not read.
split_text(text, chunk_size, chunk_overlap, ser) ==
  CloseChunk(ParagraphLoop([chunks |-> <<>>, cur |-> <<>>, size |-> 0],
                           Split(text, <<NL, NL>>), chunk_size, ser),
             ser)

(***************************************************************************)
(* Embedding provider and adapter: VectorDBManager._generate_vectors.      *)
(* The provider is outside the program.  Its answer to one batch is drawn  *)
(* from RespShapes; the answer to a shape is built from the texts sent.    *)
(***************************************************************************)
CharCode(c) ==
  CASE c = "a" -> 1
    [] c = "b" -> 2
    [] c = "c" -> 3
    [] c = "A" -> 4
    [] c = "B" -> 5
    [] c = "C" -> 6
    [] OTHER -> 0

\* The embedding a provider of dimension dim gives to a text: entries in -1..1.
Embed(dim, text) ==
  [i \in 1..dim |->
     ((Len(text) * i + (IF text = <<>> THEN 0 ELSE CharCode(text[1]))) % 3) - 1]

\* What the provider may answer to a batch: the call raises, the body has no
\* 'data', or 'data' holds len(texts)+delta items of dimension dim of which
\* item number `missing` (0: none) lacks the key 'embedding'.
RespShapes ==
  {[kind |-> "raise", dim |-> 0, delta |-> 0, missing |-> 0],
   [kind |-> "nodata", dim |-> 0, delta |-> 0, missing |-> 0],
   [kind |-> "data", dim |-> 2, delta |-> 0, missing |-> 0],
   [kind |-> "data", dim |-> 3, delta |-> 0, missing |-> 0],
   [kind |-> "data", dim |-> 2, delta |-> -1, missing |-> 0],
   [kind |-> "data", dim |-> 2, delta |-> 1, missing |-> 0],
   [kind |-> "data", dim |-> 2, delta |-> 0, missing |-> 1],
   [kind |-> "data", dim |-> 2, delta |-> 0, missing |-> 2]}

\* response.json() of requests.post(url, json={"input": texts}) (lines 276-277).
ProviderResponse(shape, texts) ==
  IF shape.kind # "data" THEN [kind |-> shape.kind, data |-> <<>>]
  ELSE [kind |-> "data",
        data |-> [j \in 1..Max(Len(texts) + shape.delta, 0) |->
                    [has |-> (j # shape.missing),
                     embedding |-> Embed(shape.dim,
                                         IF j <= Len(texts) THEN texts[j] ELSE <<>>)]]]

\* [0.0] * 1024
Placeholder == [i \in 1..PlaceholderDim |-> 0]

\* The placeholder loop over a batch (lines 246-251, 291-296, 300-305).
PlaceholderVectors(batch) ==
  [j \in 1..Len(batch) |->
     [id |-> batch[j].id, vector |-> Placeholder, metadata |-> batch[j].metadata]]

\* The loop over response_data["data"] from item j on (lines 281-287): the
\* vectors appended so far and whether embedding_data["embedding"] raised.
RECURSIVE DataLoop(_, _, _, _)
DataLoop(acc, batch, data, j) ==
  IF j > Len(data) THEN [vectors |-> acc, raised |-> FALSE]
  ELSE IF j <= Len(batch)
  THEN IF data[j].has
       THEN DataLoop(Append(acc, [id |-> batch[j].id,
                                  vector |-> data[j].embedding,
                                  metadata |-> batch[j].metadata]),
                     batch, data, j + 1)
       ELSE [vectors |-> acc, raised |-> TRUE]
  ELSE DataLoop(acc, batch, data, j + 1)

\* The batch loop body with a failed batch discarding the vectors of the
\* batches before it.
BatchStepDiscarding(vectors, batch, response) ==
  IF response.kind = "raise" THEN PlaceholderVectors(batch)
  ELSE IF response.kind = "data"
  THEN LET r == DataLoop(vectors, batch, response.data, 1) IN
       IF r.raised THEN r.vectors \o PlaceholderVectors(batch) ELSE r.vectors
  ELSE PlaceholderVectors(batch)

\* The body of the batch loop (lines 264-305): vectors after the batch.
BatchStep(vectors, batch, response) ==
  IF response.kind = "raise" THEN vectors \o PlaceholderVectors(batch)
  ELSE IF response.kind = "data"
  THEN LET r == DataLoop(vectors, batch, response.data, 1) IN
       IF r.raised THEN r.vectors \o PlaceholderVectors(batch) ELSE r.vectors
  ELSE vectors \o PlaceholderVectors(batch)

ChunkTexts(batch) == [j \in 1..Len(batch) |-> batch[j].text]

\* for i in range(0, len(chunks), batch_size), from offset i on; shapes[b] is
\* the provider's answer to the b-th batch.
RECURSIVE BatchLoop(_, _, _, _)
BatchLoop(vectors, chunks, shapes, i) ==
  IF i >= Len(chunks) THEN vectors
  ELSE LET batch_chunks == PyRange(chunks, i, batch_size)
           response == ProviderResponse(shapes[(i \div batch_size) + 1],
                                        ChunkTexts(batch_chunks))
       IN BatchLoop(BatchStep(vectors, batch_chunks, response),
                    chunks, shapes, i + batch_size)

\* _generate_vectors(chunks): api_key is whether OPENAI_API_KEY is set.
generate_vectors(chunks, api_key, shapes) ==
  IF ~api_key THEN PlaceholderVectors(chunks)
  ELSE BatchLoop(<<>>, chunks, shapes, 0)

\* The number of provider calls _generate_vectors makes for n chunks.
NumBatches(n) == (n + batch_size - 1) \div batch_size

(***************************************************************************)
(* Summary generator: VectorDBManager._generate_document_summary.          *)
(* A document content is [none, text]: none models doc_content = None.     *)
(***************************************************************************)
SummaryNoKey == "no_key_sentinel"           \* line 43

SummaryBadResponse == "bad_response_sentinel"   \* line 83

SummaryError == "error_sentinel"            \* line 87

\* What the summary call does: it returns a body with a summary ("ok"), a
\* body without 'choices' or with an empty list of them ("malformed"), a body
\* whose first choice has no message content ("badchoice"), or it raises.
SummaryOutcomes == {"ok", "malformed", "badchoice", "raise"}

generate_document_summary(doc_content, api_key, outcome) ==
  IF ~api_key THEN SummaryNoKey
  ELSE IF doc_content.none THEN SummaryError     \* len(None) raises inside the try
  ELSE IF outcome = "raise" THEN SummaryError
  ELSE IF outcome = "badchoice" THEN SummaryError   \* line 78 raises inside the try
  ELSE IF outcome = "ok" THEN "summary"
  ELSE SummaryBadResponse

(***************************************************************************)
(* Vector collection store.  fs[d] is the directory persist_directory/d:   *)
(* dir (it exists) and its files metadata.json, chunks.json, vectors.json. *)
(***************************************************************************)
Absent == [st |-> "absent", data |-> <<>>]

Corrupt == [st |-> "corrupt", data |-> <<>>]

Ok(data) == [st |-> "ok", data |-> data]

\* A file that parses, to null or a number: not to the list or dict the
\* program writes.  The program never writes one; another program can.
OtherJson == [st |-> "other", data |-> <<>>]

NoDir == [dir |-> FALSE, meta |-> Absent, chunks |-> Absent, vectors |-> Absent]

FileNames == {"meta", "chunks", "vectors"}

\* os.path.exists(file)
FileExists(file) == file.st # "absent"

\* Where create_vector_db may raise on the file system: os.makedirs, and for
\* each of the three files open(..., 'w') (the old file is left as it was) or
\* json.dump on the opened, truncated file (a partial file is left).
FailPoints ==
  {"none", "mkdir", "meta_open", "meta_dump", "chunks_open", "chunks_dump",
   "vectors_open", "vectors_dump"}

\* create_vector_db giving up when the summary step gave a sentinel.
create_vector_db_summary_fatal(f, doc_content, doc_metadata, chunk_size, chunk_overlap, ser, api_key, outcome, shapes, fail) ==
  LET f1 == [f EXCEPT !.dir = TRUE]
      doc_summary == generate_document_summary(doc_content, api_key, outcome)
      metadata == [original_metadata |-> doc_metadata,
                   vector_db_created_at |-> ser,
                   chunk_size |-> chunk_size,
                   chunk_overlap |-> chunk_overlap,
                   document_summary |-> doc_summary]
      f2 == [f1 EXCEPT !.meta = Ok(metadata)]
      chunks == split_text(doc_content.text, chunk_size, chunk_overlap, ser)
      f3 == [f2 EXCEPT !.chunks = Ok(chunks)]
      vectors == generate_vectors(chunks, api_key, shapes)
      f4 == [f3 EXCEPT !.vectors = Ok(vectors)]
  IN
  IF fail = "mkdir" THEN [f |-> f, ret |-> FALSE]
  ELSE IF doc_summary \in {SummaryNoKey, SummaryBadResponse, SummaryError}
  THEN [f |-> f1, ret |-> FALSE]
  ELSE IF fail = "meta_open" THEN [f |-> f1, ret |-> FALSE]
  ELSE IF fail = "meta_dump" THEN [f |-> [f1 EXCEPT !.meta = Corrupt], ret |-> FALSE]
  ELSE IF doc_content.none THEN [f |-> f2, ret |-> FALSE]
  ELSE IF fail = "chunks_open" THEN [f |-> f2, ret |-> FALSE]
  ELSE IF fail = "chunks_dump" THEN [f |-> [f2 EXCEPT !.chunks = Corrupt], ret |-> FALSE]
  ELSE IF fail = "vectors_open" THEN [f |-> f3, ret |-> FALSE]
  ELSE IF fail = "vectors_dump" THEN [f |-> [f3 EXCEPT !.vectors = Corrupt], ret |-> FALSE]
  ELSE [f |-> f4, ret |-> TRUE]

\* create_vector_db opening vectors.json for writing right after making the
\* directory, before anything else is written.
create_vector_db_vectors_opened_first(f, doc_content, doc_metadata, chunk_size, chunk_overlap, ser, api_key, outcome, shapes, fail) ==
  LET f1 == [f EXCEPT !.dir = TRUE, !.vectors = Ok(<<>>)]
      doc_summary == generate_document_summary(doc_content, api_key, outcome)
      metadata == [original_metadata |-> doc_metadata,
                   vector_db_created_at |-> ser,
                   chunk_size |-> chunk_size,
                   chunk_overlap |-> chunk_overlap,
                   document_summary |-> doc_summary]
      f2 == [f1 EXCEPT !.meta = Ok(metadata)]
      chunks == split_text(doc_content.text, chunk_size, chunk_overlap, ser)
      f3 == [f2 EXCEPT !.chunks = Ok(chunks)]
      vectors == generate_vectors(chunks, api_key, shapes)
      f4 == [f3 EXCEPT !.vectors = Ok(vectors)]
  IN
  IF fail = "mkdir" THEN [f |-> f, ret |-> FALSE]
  ELSE IF fail = "meta_open" THEN [f |-> f1, ret |-> FALSE]
  ELSE IF fail = "meta_dump" THEN [f |-> [f1 EXCEPT !.meta = Corrupt], ret |-> FALSE]
  ELSE IF doc_content.none THEN [f |-> f2, ret |-> FALSE]
  ELSE IF fail = "chunks_open" THEN [f |-> f2, ret |-> FALSE]
  ELSE IF fail = "chunks_dump" THEN [f |-> [f2 EXCEPT !.chunks = Corrupt], ret |-> FALSE]
  ELSE IF fail = "vectors_open" THEN [f |-> f3, ret |-> FALSE]
  ELSE IF fail = "vectors_dump" THEN [f |-> [f3 EXCEPT !.vectors = Corrupt], ret |-> FALSE]
  ELSE [f |-> f4, ret |-> TRUE]

\* create_vector_db(doc_id, doc_content, doc_metadata, chunk_size, chunk_overlap)
\* on the directory f of doc_id: the directory afterwards and the value returned.
create_vector_db(f, doc_content, doc_metadata, chunk_size, chunk_overlap, ser, api_key, outcome, shapes, fail) ==
  LET f1 == [f EXCEPT !.dir = TRUE]
      doc_summary == generate_document_summary(doc_content, api_key, outcome)
      metadata == [original_metadata |-> doc_metadata,
                   vector_db_created_at |-> ser,
                   chunk_size |-> chunk_size,
                   chunk_overlap |-> chunk_overlap,
                   document_summary |-> doc_summary]
      f2 == [f1 EXCEPT !.meta = Ok(metadata)]
      chunks == split_text(doc_content.text, chunk_size, chunk_overlap, ser)
      f3 == [f2 EXCEPT !.chunks = Ok(chunks)]
      vectors == generate_vectors(chunks, api_key, shapes)
      f4 == [f3 EXCEPT !.vectors = Ok(vectors)]
  IN
  IF fail = "mkdir" THEN [f |-> f, ret |-> FALSE]
  ELSE IF fail = "meta_open" THEN [f |-> f1, ret |-> FALSE]
  ELSE IF fail = "meta_dump" THEN [f |-> [f1 EXCEPT !.meta = Corrupt], ret |-> FALSE]
  ELSE IF doc_content.none THEN [f |-> f2, ret |-> FALSE]   \* None.split raises
  ELSE IF fail = "chunks_open" THEN [f |-> f2, ret |-> FALSE]
  ELSE IF fail = "chunks_dump" THEN [f |-> [f2 EXCEPT !.chunks = Corrupt], ret |-> FALSE]
  ELSE IF fail = "vectors_open" THEN [f |-> f3, ret |-> FALSE]
  ELSE IF fail = "vectors_dump" THEN [f |-> [f3 EXCEPT !.vectors = Corrupt], ret |-> FALSE]
  ELSE [f |-> f4, ret |-> TRUE]

\* metadata.get(key, default)
Get(metadata, key, default) ==
  IF key \in DOMAIN metadata THEN metadata[key] ELSE default

\* {}: a dict without keys.
EmptyDict == [key \in {} |-> 0]

\* get_vector_db_status raised: it returned nothing.
StatusRaised == [raised |-> TRUE]

\* get_vector_db_status counting the vectors instead of the chunks.
get_vector_db_status_counting_vectors(f) ==
  IF ~f.dir THEN [exists |-> FALSE]
  ELSE IF f.meta.st = "other" THEN StatusRaised
  ELSE LET chunks_exist == FileExists(f.chunks)
           vectors_exist == FileExists(f.vectors)
           chunks_count == IF f.vectors.st = "ok" THEN Len(f.vectors.data) ELSE 0
           metadata == IF f.meta.st = "ok" THEN f.meta.data ELSE EmptyDict
       IN [exists |-> chunks_exist /\ vectors_exist,
           chunks_exist |-> chunks_exist,
           vectors_exist |-> vectors_exist,
           chunks_count |-> chunks_count,
           created_at |-> Get(metadata, "vector_db_created_at", -1),
           chunk_size |-> Get(metadata, "chunk_size", 0),
           chunk_overlap |-> Get(metadata, "chunk_overlap", 0),
           document_summary |-> Get(metadata, "document_summary", "no_summary")]

\* get_vector_db_status(doc_id) on the directory f.  json.load of a file that
\* does not parse raises inside the bare try (lines 518-530); of a file that
\* holds null or a number it returns a value whose len() raises inside the
\* try (line 521) and whose .get raises outside of it (line 537).
get_vector_db_status(f) ==
  IF ~f.dir THEN [exists |-> FALSE]
  ELSE IF f.meta.st = "other" THEN StatusRaised
  ELSE LET chunks_exist == FileExists(f.chunks)
           vectors_exist == FileExists(f.vectors)
           chunks_count == IF f.chunks.st = "ok" THEN Len(f.chunks.data) ELSE 0
           metadata == IF f.meta.st = "ok" THEN f.meta.data ELSE EmptyDict
       IN [exists |-> chunks_exist /\ vectors_exist,
           chunks_exist |-> chunks_exist,
           vectors_exist |-> vectors_exist,
           chunks_count |-> chunks_count,
           created_at |-> Get(metadata, "vector_db_created_at", -1),
           chunk_size |-> Get(metadata, "chunk_size", 0),
           chunk_overlap |-> Get(metadata, "chunk_overlap", 0),
           document_summary |-> Get(metadata, "document_summary", "no_summary")]

\* Where delete_vector_db may raise: an os.remove, or the final os.rmdir.
DeleteFailPoints == {"none", "remove", "rmdir"}

\* delete_vector_db with the exception of os.remove swallowed: it reports
\* success whatever was removed.
delete_vector_db_swallowing(f, fail, removed) ==
  IF ~f.dir THEN [f |-> f, ret |-> TRUE]
  ELSE IF fail = "remove"
  THEN [f |-> [n \in DOMAIN f |-> IF n \in removed THEN Absent ELSE f[n]],
        ret |-> TRUE]
  ELSE IF fail = "rmdir"
  THEN [f |-> [NoDir EXCEPT !.dir = TRUE], ret |-> TRUE]
  ELSE [f |-> NoDir, ret |-> TRUE]

\* delete_vector_db(doc_id) on the directory f.  os.listdir gives the files in
\* an order the program does not choose: when an os.remove raises, `removed`
\* is the set of files removed before it.
delete_vector_db(f, fail, removed) ==
  IF ~f.dir THEN [f |-> f, ret |-> TRUE]
  ELSE IF fail = "remove"
  THEN [f |-> [n \in DOMAIN f |-> IF n \in removed THEN Absent ELSE f[n]],
        ret |-> FALSE]
  ELSE IF fail = "rmdir"
  THEN [f |-> [NoDir EXCEPT !.dir = TRUE], ret |-> FALSE]
  ELSE [f |-> NoDir, ret |-> TRUE]

\* get_all_vector_dbs(): the sub-directories of persist_directory.
get_all_vector_dbs(files) == {d \in DOMAIN files : files[d].dir}

(***************************************************************************)
(* Similarity search.                                                      *)
(***************************************************************************)
RECURSIVE Dot(_, _)
Dot(a, b) ==
  IF a = <<>> \/ b = <<>> THEN 0
  ELSE Head(a) * Head(b) + Dot(Tail(a), Tail(b))

ZeroScore == [num |-> 0, den |-> 1]          \* 0.0

\* 0.8, the score of a keyword match (line 480): 0.8^2 = 16/25.
KeywordScore == [num |-> 16, den |-> 25]

\* _cosine_similarity(vec1, vec2), as the signed square of the quotient.
cosine_similarity(vec1, vec2) ==
  IF Len(vec1) # Len(vec2) THEN ZeroScore
  ELSE LET dot_product == Dot(vec1, vec2)
           sq1 == Dot(vec1, vec1)
           sq2 == Dot(vec2, vec2)
       IN IF sq1 * sq2 = 0 THEN ZeroScore
          ELSE [num |-> (IF dot_product < 0 THEN -1 ELSE 1) * dot_product * dot_product,
                den |-> sq1 * sq2]

\* a >= b on scores.
ScoreGE(a, b) == a.num * b.den >= b.num * a.den

\* Insert x into a list sorted by score descending, after every element whose
\* score is >= x's: list.sort(reverse=True) is stable.
RECURSIVE InsertDesc(_, _)
InsertDesc(sorted, x) ==
  IF sorted = <<>> THEN <<x>>
  ELSE IF ScoreGE(Head(sorted).score, x.score)
  THEN <<Head(sorted)>> \o InsertDesc(Tail(sorted), x)
  ELSE <<x>> \o sorted

\* The sort left out: the results stay in the order they were found.
SortDescOmitted(results) == results

\* results.sort(key=lambda x: x["score"], reverse=True)
RECURSIVE SortDesc(_)
SortDesc(results) ==
  IF results = <<>> THEN <<>>
  ELSE InsertDesc(SortDesc(SubSeq(results, 1, Len(results) - 1)),
                  results[Len(results)])

\* What the provider may answer to the query embedding call.
QueryShapes ==
  {[kind |-> "raise", dim |-> 0, delta |-> 0, missing |-> 0],
   [kind |-> "nodata", dim |-> 0, delta |-> 0, missing |-> 0],
   [kind |-> "data", dim |-> 2, delta |-> 0, missing |-> 0],
   [kind |-> "data", dim |-> 3, delta |-> 0, missing |-> 0],
   [kind |-> "data", dim |-> 0, delta |-> 0, missing |-> 0],
   [kind |-> "data", dim |-> 2, delta |-> -1, missing |-> 0],
   [kind |-> "data", dim |-> 2, delta |-> 0, missing |-> 1]}

\* _generate_query_vector(query)
generate_query_vector(query, api_key, shape) ==
  IF ~api_key THEN <<>>
  ELSE LET response == ProviderResponse(shape, <<query>>) IN
       IF response.kind = "data" /\ Len(response.data) > 0 /\ response.data[1].has
       THEN response.data[1].embedding
       ELSE <<>>

\* The keyword loop without .lower(): a case-sensitive match.
RECURSIVE KeywordMatchesCaseSensitive(_, _)
KeywordMatchesCaseSensitive(chunks, query) ==
  IF chunks = <<>> THEN <<>>
  ELSE (IF Contains(Head(chunks).text, query)
        THEN <<[text |-> Head(chunks).text,
                score |-> KeywordScore,
                metadata |-> Head(chunks).metadata]>>
        ELSE <<>>)
       \o KeywordMatchesCaseSensitive(Tail(chunks), query)

\* The loop of _fallback_keyword_search over the chunks (lines 475-482).
RECURSIVE KeywordMatches(_, _)
KeywordMatches(chunks, query) ==
  IF chunks = <<>> THEN <<>>
  ELSE (IF Contains(Lower(Head(chunks).text), Lower(query))
        THEN <<[text |-> Head(chunks).text,
                score |-> KeywordScore,
                metadata |-> Head(chunks).metadata]>>
        ELSE <<>>)
       \o KeywordMatches(Tail(chunks), query)

\* _fallback_keyword_search(chunks, query, top_k)
fallback_keyword_search(chunks, query, top_k) ==
  PySlice(SortDesc(KeywordMatches(chunks, query)), top_k)

\* The similarity loop without the dimension check of lines 362-364.
RECURSIVE SimilarityResultsUnchecked(_, _, _, _)
SimilarityResultsUnchecked(chunks, vectors, query_vector, i) ==
  IF i > Len(vectors) THEN <<>>
  ELSE (IF i <= Len(chunks)
        THEN <<[text |-> chunks[i].text,
                score |-> cosine_similarity(query_vector, vectors[i].vector),
                metadata |-> chunks[i].metadata]>>
        ELSE <<>>)
       \o SimilarityResultsUnchecked(chunks, vectors, query_vector, i + 1)

\* The similarity loop of search_vector_db from position i on (lines 358-371):
\* the results before they are sorted and cut.
RECURSIVE SimilarityResults(_, _, _, _)
SimilarityResults(chunks, vectors, query_vector, i) ==
  IF i > Len(vectors) THEN <<>>
  ELSE (IF i <= Len(chunks) /\ Len(vectors[i].vector) = Len(query_vector)
        THEN <<[text |-> chunks[i].text,
                score |-> cosine_similarity(query_vector, vectors[i].vector),
                metadata |-> chunks[i].metadata]>>
        ELSE <<>>)
       \o SimilarityResults(chunks, vectors, query_vector, i + 1)

\* search_vector_db(doc_id, query, top_k) on the directory f, query_vector
\* being what _generate_query_vector returned.
search_vector_db(f, query, top_k, query_vector) ==
  IF ~f.dir THEN <<>>
  ELSE IF ~FileExists(f.chunks) \/ ~FileExists(f.vectors) THEN <<>>
  ELSE IF f.chunks.st = "ok" /\ f.vectors.st = "ok"
  THEN IF query_vector = <<>>
       THEN fallback_keyword_search(f.chunks.data, query, top_k)
       ELSE PySlice(SortDesc(SimilarityResults(f.chunks.data, f.vectors.data,
                                               query_vector, 1)),
                    top_k)
  ELSE IF f.chunks.st = "ok"                   \* json.load(vectors) raised
  THEN fallback_keyword_search(f.chunks.data, query, top_k)
  ELSE <<>>                                    \* json.load(chunks) raised twice

(***************************************************************************)
(* Reranker adapter: VectorDBManager.rerank_results.                       *)
(* A provider response is [kind, results]; a result is [index, has_score,  *)
(* relevance_score], index being the 0-based index the provider names (-1  *)
(* when the result has no 'index') and has_score whether it carries the    *)
(* key 'relevance_score'.                                                  *)
(***************************************************************************)
\* The loop over response_data["results"] (lines 631-638).
RECURSIVE RerankedDocs(_, _)
RerankedDocs(documents, results) ==
  IF results = <<>> THEN <<>>
  ELSE LET idx == Head(results).index IN
       (IF 0 <= idx /\ idx < Len(documents)
        THEN <<[documents[idx + 1] EXCEPT
                  !.score = IF Head(results).has_score
                            THEN Head(results).relevance_score
                            ELSE documents[idx + 1].score]>>
        ELSE <<>>)
       \o RerankedDocs(documents, Tail(results))

\* rerank_results returning the whole candidate list when the response has
\* no 'results'.
rerank_results_uncut(documents, top_k, api_key, response) ==
  IF ~api_key THEN PySlice(documents, top_k)
  ELSE IF response.kind = "raise" THEN PySlice(documents, top_k)
  ELSE IF response.kind = "results" THEN RerankedDocs(documents, response.results)
  ELSE documents

\* rerank_results(query, documents, top_k)
rerank_results(documents, top_k, api_key, response) ==
  IF ~api_key THEN PySlice(documents, top_k)
  ELSE IF response.kind = "raise" THEN PySlice(documents, top_k)
  ELSE IF response.kind = "results" THEN RerankedDocs(documents, response.results)
  ELSE PySlice(documents, top_k)

(***************************************************************************)
(* Multi-document search: RAGFunctions.search_documents                    *)
(* (src/rag_functions.py).  files is the vector store, documents the ids   *)
(* the document database knows, query_vectors[d] what                      *)
(* _generate_query_vector returns in the search of d.                      *)
(***************************************************************************)
\* The answer when nothing was found or an argument is missing: one result
\* that is a message, with score 0 and an empty doc_id.
MessageResult(message) ==
  [text |-> <<message>>, score |-> ZeroScore, doc_title |-> <<"system">>, doc_id |-> ""]

\* results with doc_id and doc_title added to each (lines 222-224).
Tagged(results, d) ==
  [i \in 1..Len(results) |->
     [text |-> results[i].text, score |-> results[i].score,
      metadata |-> results[i].metadata, doc_id |-> d, doc_title |-> <<"title", d>>]]

\* The loop over doc_ids from position i on (lines 197-226): all_results.
RECURSIVE SearchEach(_, _, _, _, _, _, _)
SearchEach(files, documents, query, doc_ids, top_k, query_vectors, i) ==
  IF i > Len(doc_ids) THEN <<>>
  ELSE LET doc_id == doc_ids[i]
           results_per_doc == Max(1, top_k \div Len(doc_ids)) * 2
       IN (IF doc_id \notin documents THEN <<>>
           ELSE IF ~get_vector_db_status(files[doc_id]).exists THEN <<>>
           ELSE Tagged(search_vector_db(files[doc_id], query, results_per_doc,
                                        query_vectors[doc_id]),
                       doc_id))
          \o SearchEach(files, documents, query, doc_ids, top_k, query_vectors, i + 1)

\* search_documents({"query", "doc_ids", "top_k"}): the list under "results"
\* of the JSON it returns (lines 158-272).
search_documents(files, documents, query, doc_ids, top_k, query_vectors, api_key, response) ==
  IF query = <<>> THEN <<MessageResult("no query")>>
  ELSE IF doc_ids = <<>> THEN <<MessageResult("no doc_ids")>>
  ELSE LET all_results == SortDesc(SearchEach(files, documents, query, doc_ids,
                                              top_k, query_vectors, 1))
       IN IF all_results = <<>> THEN <<MessageResult("nothing found")>>
          ELSE LET kept == PySlice(IF Len(all_results) > top_k
                                   THEN rerank_results(all_results, top_k, api_key,
                                                       response)
                                   ELSE all_results,
                                   top_k)
               IN [i \in 1..Len(kept) |->           \* formatted_results
                     [text |-> kept[i].text, score |-> kept[i].score,
                      doc_title |-> kept[i].doc_title, doc_id |-> kept[i].doc_id]]

(***************************************************************************)
(* Inputs of the operations.                                               *)
(***************************************************************************)
Text(t) == [none |-> FALSE, text |-> t]

NoneContent == [none |-> TRUE, text |-> <<>>]

\* "A.\n\nB.\n\nC."
TextABC == <<"A", ".", NL, NL, "B", ".", NL, NL, "C", ".">>

\* n paragraphs "a" separated by blank lines.
RECURSIVE Paragraphs(_)
Paragraphs(n) ==
  IF n <= 1 THEN <<"a">> ELSE <<"a", NL, NL>> \o Paragraphs(n - 1)

\* The (doc_content, chunk_size) pairs create_vector_db is called with: three
\* chunks, one chunk, batch_size + 1 chunks (two provider calls), no chunk,
\* a None content, and a chunk_size of 0.
CreateInputs ==
  {[content |-> Text(TextABC), chunk_size |-> 5],
   [content |-> Text(TextABC), chunk_size |-> 0],
   [content |-> Text(TextABC), chunk_size |-> 50],
   [content |-> Text(Paragraphs(batch_size + 1)), chunk_size |-> 1],
   [content |-> Text(<<>>), chunk_size |-> 5],
   [content |-> NoneContent, chunk_size |-> 5]}

ChunkOverlaps == {0}

Queries == {<<"b">>, <<"B">>, <<".">>, <<"z">>}

\* The same provider answer to each of n batches.
AllOf(shape, n) == [b \in 1..n |-> shape]

ShapeRaise == [kind |-> "raise", dim |-> 0, delta |-> 0, missing |-> 0]

ShapeFull == [kind |-> "data", dim |-> 2, delta |-> 0, missing |-> 0]

\* The provider's answers to n batches: any answer to the first batch, and to
\* each later batch either a full answer or a failed call.
ShapeSeqs(n) ==
  {sh \in [1..n -> RespShapes] : \A b \in 2..n : sh[b] \in {ShapeRaise, ShapeFull}}

\* The environments of a create_vector_db call that sends n batches: whether
\* an API key is set, what the summary call does, what the embedding provider
\* answers, where the file system fails.  Without a key neither provider is
\* called; the provider's answers and the file system's failures are varied
\* one at a time.
CreateEnvs(n) ==
  {[api_key |-> FALSE, outcome |-> "raise", shapes |-> AllOf(ShapeRaise, n), fail |-> fl] :
      fl \in FailPoints}
  \cup {[api_key |-> TRUE, outcome |-> o, shapes |-> AllOf(ShapeFull, n), fail |-> "none"] :
      o \in SummaryOutcomes}
  \cup {[api_key |-> TRUE, outcome |-> "ok", shapes |-> sh, fail |-> "none"] :
      sh \in ShapeSeqs(n)}
  \cup {[api_key |-> TRUE, outcome |-> "ok", shapes |-> AllOf(ShapeFull, n), fail |-> fl] :
      fl \in FailPoints}

\* The number of chunks _split_text makes of a content.
NumChunks(content, chunk_size) ==
  IF content.none THEN 0 ELSE Len(split_text(content.text, chunk_size, 0, 0))

\* What a create_vector_db call was given: its arguments and its environment.
CreateArgs(in, env) ==
  [chunk_size |-> in.chunk_size, content |-> in.content,
   api_key |-> env.api_key, outcome |-> env.outcome, fail |-> env.fail]

\* create_vector_db(d, ...) called as the ser-th call with input in in the
\* environment env, on the directory f.
CreateCall(f, d, in, chunk_overlap, ser, env) ==
  create_vector_db(f, in.content, [title |-> d], in.chunk_size, chunk_overlap, ser,
                   env.api_key, env.outcome, env.shapes, env.fail)

(***************************************************************************)
(* LongNovelGenerator (src/generators/long_novel_generator.py) and the     *)
(* input validation of BaseGenerator (src/base_generator.py).              *)
(* A user_input is a function from the keys it holds to their values; the  *)
(* genre and writing-style options are written in Latin letters.  The      *)
(* novel text is a sequence of tokens: a chapter title is one token, a     *)
(* chapter body is a sequence of characters.                               *)
(***************************************************************************)
\* get_input_fields(): name, type, required and the limits validate_input reads.
get_input_fields ==
  <<[name |-> "title", type |-> "text", required |-> TRUE],
    [name |-> "genre", type |-> "select", required |-> TRUE,
     options |-> {"xuanhuan", "urban", "history", "scifi", "romance", "suspense",
                  "wuxia", "xianxia", "game", "other"}],
    [name |-> "main_character", type |-> "text", required |-> TRUE],
    [name |-> "character_description", type |-> "textarea", required |-> FALSE],
    [name |-> "plot_outline", type |-> "textarea", required |-> FALSE],
    [name |-> "target_chapters", type |-> "number", required |-> TRUE,
     min_value |-> 1, max_value |-> 1000],
    [name |-> "chapter_length", type |-> "slider", required |-> TRUE,
     min_value |-> 1000, max_value |-> 5000],
    [name |-> "writing_style", type |-> "select", required |-> TRUE,
     options |-> {"light", "serious", "romantic", "tense", "warm", "dark"}]>>

\* Whether one field passes the checks of validate_input (lines 121-149).
FieldValid(field, user_input) ==
  LET present ==                 \* the key is there and its value is truthy
        /\ field.name \in DOMAIN user_input
        /\ IF field.type \in {"number", "slider"}
           THEN user_input[field.name] # 0 ELSE user_input[field.name] # ""
  IN /\ field.required => present
     /\ present =>
          /\ field.type \in {"number", "slider"} =>
               /\ user_input[field.name] >= field.min_value
               /\ user_input[field.name] <= field.max_value
          /\ field.type = "select" => user_input[field.name] \in field.options

\* validate_input(user_input)[0]
validate_input(user_input) ==
  \A i \in 1..Len(get_input_fields) : FieldValid(get_input_fields[i], user_input)

\* self.current_novel after __init__ and after reset_novel (lines 29-39, 186-196).
FreshNovel ==
  [title |-> "", genre |-> "", characters |-> <<>>, plot_outline |-> "",
   current_chapter |-> 0, total_chapters |-> 0, content |-> <<>>,
   chapter_titles |-> <<>>, conversation_history |-> <<>>]

\* _initialize_novel(user_input) on the state n (lines 198-216).
initialize_novel(n, user_input) ==
  [n EXCEPT !.title = user_input["title"],
            !.genre = user_input["genre"],
            !.total_chapters = user_input["target_chapters"],
            !.characters = <<[name |-> user_input["main_character"],
                              description |-> IF "character_description" \in DOMAIN user_input
                                              THEN user_input["character_description"]
                                              ELSE "",
                              role |-> "protagonist"]>>,
            !.plot_outline = IF "plot_outline" \in DOMAIN user_input
                             THEN user_input["plot_outline"] ELSE "",
            !.conversation_history = <<>>]

\* What chat_manager.chat may give: a text, a message whose content is None,
\* or an exception (no API key, network failure).
ChatOutcomes ==
  {[kind |-> "text", content |-> <<" ", "x", NL>>],
   [kind |-> "text", content |-> <<>>],
   [kind |-> "none", content |-> <<>>],
   [kind |-> "raise", content |-> <<>>]}

\* _generate_chapter(chapter_num, user_input) on the state n: the state it
\* leaves and the chapter content, or the exception (lines 218-259).
generate_chapter(n, chapter_num, user_input, chat) ==
  IF \/ ~({"title", "genre", "main_character", "writing_style", "chapter_length"}
            \subseteq DOMAIN user_input)       \* KeyError at lines 263-269
     \/ chat.kind = "raise"
  THEN [novel |-> n, raised |-> TRUE, content |-> <<>>, none |-> FALSE]
  ELSE LET extended == n.conversation_history \o
                         <<[role |-> "user", chapter |-> chapter_num],
                           [role |-> "assistant", none |-> chat.kind = "none",
                            content |-> chat.content]>>
           kept == IF Len(extended) > HistoryLimit
                   THEN SubSeq(extended, Len(extended) - HistoryLimit + 1, Len(extended))
                   ELSE extended
       IN [novel |-> [n EXCEPT !.conversation_history = kept],
           raised |-> FALSE, content |-> chat.content, none |-> chat.kind = "none"]

\* generate(user_input) on the state n: [novel, ret] (lines 120-143).
generate(n, user_input, chat) ==
  IF ~validate_input(user_input)
  THEN [novel |-> n, ret |-> [raised |-> "Exception"]]
  ELSE LET g == generate_chapter(initialize_novel(n, user_input), 1, user_input, chat) IN
       IF g.raised \/ g.none                    \* None.strip() raises
       THEN [novel |-> g.novel, ret |-> [raised |-> "Exception"]]
       ELSE LET chapter_title == <<"chapter", 1>>
                written == [g.novel EXCEPT
                              !.content = <<chapter_title, NL>> \o Strip(g.content),
                              !.current_chapter = 1,
                              !.chapter_titles = Append(@, chapter_title)]
            IN [novel |-> written, ret |-> written.content]

\* continue_writing(user_input) on the state n: [novel, ret] (lines 145-170).
\* The ValueError of line 155 is raised inside the try and leaves the method
\* as the Exception of line 170.
continue_writing(n, user_input, chat) ==
  IF n.title = ""
  THEN [novel |-> n, ret |-> [raised |-> "Exception"]]
  ELSE LET next_chapter == n.current_chapter + 1
           chapter_title == IF next_chapter > n.total_chapters
                            THEN <<"epilogue">> ELSE <<"chapter", next_chapter>>
           g == generate_chapter(n, next_chapter, user_input, chat)
       IN IF g.raised \/ g.none
          THEN [novel |-> g.novel, ret |-> [raised |-> "Exception"]]
          ELSE LET written == [g.novel EXCEPT
                                 !.content = @ \o <<NL, NL, chapter_title, NL>>
                                               \o Strip(g.content),
                                 !.current_chapter = next_chapter,
                                 !.chapter_titles = Append(@, chapter_title)]
               IN [novel |-> written, ret |-> written.content]

ValidInput(target_chapters) ==
  [title |-> "T", genre |-> "urban", main_character |-> "M",
   target_chapters |-> target_chapters, chapter_length |-> 2000,
   writing_style |-> "light"]

\* The user_input dictionaries of the calls: complete ones, the empty one of
\* the repository's test, a genre that is no option, a chapter count of 0.
UserInputs ==
  {ValidInput(1), ValidInput(2), <<>>,
   [ValidInput(1) EXCEPT !.genre = "real"],
   [ValidInput(1) EXCEPT !.target_chapters = 0]}

(***************************************************************************)
(* The state machine.  last is the last call: [op, doc, args, ret].        *)
(***************************************************************************)
NoCall == [op |-> "init", doc |-> "", args |-> <<>>, ret |-> <<>>]

Init ==
  /\ fs = [d \in DocIds |-> NoDir]
  /\ serial = 0
  /\ calls = <<>>
  /\ novel = FreshNovel
  /\ last = NoCall

\* A call of create_vector_db(d, ...).
Create(d) ==
  /\ serial < MaxCreates
  /\ \E in \in CreateInputs, chunk_overlap \in ChunkOverlaps :
       \E env \in CreateEnvs(NumBatches(NumChunks(in.content, in.chunk_size))) :
         /\ env.fail = "mkdir" => ~fs[d].dir
         /\ LET r == CreateCall(fs[d], d, in, chunk_overlap, serial + 1, env)
            IN /\ fs' = [fs EXCEPT ![d] = r.f]
               /\ last' = [op |-> "create", doc |-> d,
                           args |-> CreateArgs(in, env), ret |-> r.ret]
  /\ serial' = serial + 1
  /\ UNCHANGED <<calls, novel>>

\* A call of delete_vector_db(d).
Delete(d) ==
  /\ \E fail \in DeleteFailPoints, removed \in SUBSET FileNames :
       LET present == {n \in FileNames : FileExists(fs[d][n])} IN
       /\ fail = "remove" => (fs[d].dir /\ removed \subseteq present /\ removed # present)
       /\ fail # "remove" => removed = {}
       /\ fail = "rmdir" => fs[d].dir
       /\ LET r == delete_vector_db(fs[d], fail, removed)
          IN /\ fs' = [fs EXCEPT ![d] = r.f]
             /\ last' = [op |-> "delete", doc |-> d,
                         args |-> [existed |-> get_vector_db_status(fs[d]).exists],
                         ret |-> r.ret]
  /\ UNCHANGED <<serial, calls, novel>>

\* A get_vector_db_status(d) that creates the directory it looks for.
StatusCreatingDirectory(d) ==
  /\ last' = [op |-> "status", doc |-> d, args |-> <<>>,
              ret |-> get_vector_db_status(fs[d])]
  /\ fs' = [fs EXCEPT ![d].dir = TRUE]
  /\ UNCHANGED <<serial, calls, novel>>

\* A call of get_vector_db_status(d).
Status(d) ==
  /\ last' = [op |-> "status", doc |-> d, args |-> <<>>,
              ret |-> get_vector_db_status(fs[d])]
  /\ UNCHANGED <<fs, serial, calls, novel>>

\* A call of get_all_vector_dbs().
ListAll ==
  /\ last' = [op |-> "list", doc |-> "", args |-> <<>>, ret |-> get_all_vector_dbs(fs)]
  /\ UNCHANGED <<fs, serial, calls, novel>>

Next ==
  \/ \E d \in DocIds : Create(d)
  \/ \E d \in DocIds : Delete(d)
  \/ \E d \in DocIds : Status(d)
  \/ ListAll

\* The store: collections are created, deleted, inspected and listed.
Spec == Init /\ [][Next]_vars

(***************************************************************************)
(* Search over a collection as one create_vector_db call on an empty store *)
(* leaves it (complete, misaligned, half written or failed).               *)
(***************************************************************************)
\* The query embeddings _generate_query_vector can return for a query.
QueryVectors(query) ==
  {generate_query_vector(query, k, sh) : k \in BOOLEAN, sh \in QueryShapes}

InitSearch ==
  /\ \E d \in DocIds, in \in CreateInputs, chunk_overlap \in ChunkOverlaps :
       \E env \in CreateEnvs(NumBatches(NumChunks(in.content, in.chunk_size))) :
         LET r == CreateCall(NoDir, d, in, chunk_overlap, 1, env)
         IN /\ fs = [e \in DocIds |-> IF e = d THEN r.f ELSE NoDir]
            /\ last = [op |-> "create", doc |-> d,
                       args |-> CreateArgs(in, env), ret |-> r.ret]
  /\ serial = 1
  /\ calls = <<>>
  /\ novel = FreshNovel

\* A call of search_vector_db(d, query, top_k) with a query of queries and a
\* top_k of top_ks.
SearchWith(d, queries, top_ks) ==
  /\ \E query \in queries, top_k \in top_ks :
       \E query_vector \in QueryVectors(query) :
         last' = [op |-> "search", doc |-> d,
                  args |-> [query |-> query, top_k |-> top_k, query_vector |-> query_vector],
                  ret |-> search_vector_db(fs[d], query, top_k, query_vector)]
  /\ UNCHANGED <<fs, serial, calls, novel>>

\* A call of search_vector_db(d, query, top_k).
Search(d) == SearchWith(d, Queries, TopKs)

NextSearch == \E d \in DocIds : Search(d)

SpecSearch == InitSearch /\ [][NextSearch]_vars

(***************************************************************************)
(* The embedding adapter alone: _generate_vectors on chunk lists of        *)
(* 0..batch_size + 1 chunks under every answer of the provider.            *)
(***************************************************************************)
GenChunkCounts == {0, 1, 2, 3, batch_size, batch_size + 1}

\* The chunks of n one-letter paragraphs.
GenChunks(n) == IF n = 0 THEN <<>> ELSE split_text(Paragraphs(n), 1, 0, 1)

\* The k-th of the paragraphs "a", "bb", "ccc", "a", ...
MixedParagraph(k) ==
  CASE k % 3 = 1 -> <<"a">>
    [] k % 3 = 2 -> <<"b", "b">>
    [] OTHER -> <<"c", "c", "c">>

\* n such paragraphs separated by blank lines.
RECURSIVE MixedParagraphs(_)
MixedParagraphs(n) ==
  IF n <= 1 THEN MixedParagraph(1)
  ELSE MixedParagraphs(n - 1) \o <<NL, NL>> \o MixedParagraph(n)

\* The chunk lists _generate_vectors is called with: equal texts, and
\* batch_size + 1 chunks whose neighbours have different texts.
GenChunkLists ==
  {GenChunks(n) : n \in GenChunkCounts}
  \cup {split_text(MixedParagraphs(batch_size + 1), 3, 0, 1)}

\* The inputs of a call: a chunk list, whether an API key is set, and the
\* provider's answer to each batch.
InitGen ==
  /\ fs = [d \in DocIds |-> NoDir]
  /\ serial = 0
  /\ calls = <<>>
  /\ novel = FreshNovel
  /\ \E chunks \in GenChunkLists, api_key \in BOOLEAN :
       \E shapes \in [1..NumBatches(Len(chunks)) -> RespShapes] :
         last = [op |-> "input", doc |-> "",
                 args |-> [chunks |-> chunks, api_key |-> api_key, shapes |-> shapes],
                 ret |-> <<>>]

\* The call of _generate_vectors(chunks) on the inputs drawn.
GenerateVectors ==
  /\ last.op = "input"
  /\ last' = [last EXCEPT
                !.op = "generate_vectors",
                !.ret = generate_vectors(last.args.chunks, last.args.api_key,
                                         last.args.shapes)]
  /\ UNCHANGED <<fs, serial, calls, novel>>

NextGen == GenerateVectors

SpecGen == InitGen /\ [][NextGen]_vars

(***************************************************************************)
(* The reranker adapter alone: rerank_results on candidate lists of        *)
(* 0..MaxCandidates search results under every answer of the provider.     *)
(***************************************************************************)
\* Search results as the callers hand them over: sorted by score descending.
Candidates ==
  [i \in 1..MaxCandidates |->
     [text |-> <<"a", CASE i = 1 -> "a" [] i = 2 -> "b" [] OTHER -> "c">>,
      score |-> [num |-> MaxCandidates + 1 - i, den |-> MaxCandidates + 1],
      metadata |-> [index |-> i - 1]]]

CandidateLists == {SubSeq(Candidates, 1, n) : n \in 0..MaxCandidates}

\* The score the rerank provider gives.
RelevanceScore == [num |-> 1, den |-> 2]

RerankItems ==
  [index : -1..MaxCandidates, has_score : BOOLEAN, relevance_score : {RelevanceScore}]

RECURSIVE SeqsUpTo(_, _)
SeqsUpTo(S, n) ==
  IF n = 0 THEN {<<>>}
  ELSE SeqsUpTo(S, n - 1)
       \cup {Append(q, x) : q \in {r \in SeqsUpTo(S, n - 1) : Len(r) = n - 1}, x \in S}

\* What the rerank provider may answer: the call raises, the body has no
\* 'results', or 'results' is a list of up to MaxResults items.
RerankResponses ==
  {[kind |-> "raise", results |-> <<>>], [kind |-> "noresults", results |-> <<>>]}
  \cup {[kind |-> "results", results |-> r] : r \in SeqsUpTo(RerankItems, MaxResults)}

\* The inputs of a call: the candidates, top_k, whether an API key is set,
\* and the provider's answer.
InitRerank ==
  /\ fs = [d \in DocIds |-> NoDir]
  /\ serial = 0
  /\ calls = <<>>
  /\ novel = FreshNovel
  /\ \E documents \in CandidateLists, top_k \in TopKs, api_key \in BOOLEAN,
        response \in RerankResponses :
       last = [op |-> "input", doc |-> "",
               args |-> [documents |-> documents, top_k |-> top_k,
                         api_key |-> api_key, response |-> response],
               ret |-> <<>>]

\* The call of rerank_results(query, documents, top_k) on the inputs drawn.
Rerank ==
  /\ last.op = "input"
  /\ last' = [last EXCEPT
                !.op = "rerank",
                !.ret = rerank_results(last.args.documents, last.args.top_k,
                                       last.args.api_key, last.args.response)]
  /\ UNCHANGED <<fs, serial, calls, novel>>

NextRerank == Rerank

SpecRerank == InitRerank /\ [][NextRerank]_vars

(***************************************************************************)
(* The chunker alone: _split_text on every text of at most MaxTokens       *)
(* tokens (letters, sentence ends, blanks, blank lines) and every          *)
(* chunk_size, zero and negative ones included.                            *)
(***************************************************************************)
Tokens == {<<"a">>, <<"b">>, <<".">>, <<" ">>, <<".", " ">>, <<NL, NL>>}

RECURSIVE Flatten(_)
Flatten(ts) == IF ts = <<>> THEN <<>> ELSE Head(ts) \o Flatten(Tail(ts))

SplitTexts == {Flatten(ts) : ts \in UNION {[1..n -> Tokens] : n \in 0..MaxTokens}}

ChunkSizes == (0 - MaxNegChunkSize)..MaxChunkSize

\* The inputs of a call: a text and a chunk_size.
InitSplit ==
  /\ fs = [d \in DocIds |-> NoDir]
  /\ serial = 0
  /\ calls = <<>>
  /\ novel = FreshNovel
  /\ \E text \in SplitTexts, chunk_size \in ChunkSizes :
       last = [op |-> "input", doc |-> "",
               args |-> [text |-> text, chunk_size |-> chunk_size],
               ret |-> <<>>]

\* The call of _split_text(text, chunk_size, chunk_overlap) on the inputs drawn.
SplitText ==
  /\ last.op = "input"
  /\ last' = [last EXCEPT
                !.op = "split_text",
                !.ret = split_text(last.args.text, last.args.chunk_size, 0, 1)]
  /\ UNCHANGED <<fs, serial, calls, novel>>

NextSplit == SplitText

SpecSplit == InitSplit /\ [][NextSplit]_vars

(***************************************************************************)
(* get_vector_db_status alone, on every state of a collection directory:   *)
(* each of the three files missing, not parsing, holding another JSON      *)
(* value, or holding what create_vector_db writes.                         *)
(***************************************************************************)
MetaStates ==
  {Absent, Corrupt, OtherJson, Ok(EmptyDict), Ok([chunk_size |-> 7]),
   Ok([original_metadata |-> [title |-> "d1"], vector_db_created_at |-> 1,
       chunk_size |-> 5, chunk_overlap |-> 0, document_summary |-> "summary"])}

ChunksStates ==
  {Absent, Corrupt, OtherJson, Ok(<<>>), Ok(split_text(TextABC, 5, 0, 1))}

VectorsStates == {Absent, Corrupt, Ok(<<>>)}

StatusDirs ==
  {NoDir}
  \cup {[dir |-> TRUE, meta |-> m, chunks |-> c, vectors |-> v] :
          m \in MetaStates, c \in ChunksStates, v \in VectorsStates}

InitStatus ==
  /\ fs \in [DocIds -> StatusDirs]
  /\ serial = 0
  /\ calls = <<>>
  /\ novel = FreshNovel
  /\ last = NoCall

NextStatus == \E d \in DocIds : Status(d)

SpecStatus == InitStatus /\ [][NextStatus]_vars

(***************************************************************************)
(* The whole manager: collections are created, deleted, inspected, listed, *)
(* searched, and the results of a search reranked.                         *)
(***************************************************************************)
\* A call of search_vector_db(d, "B", 1).
SearchB(d) == SearchWith(d, {<<"B">>}, {1})

\* What the rerank provider answers here, when there is an API key: it
\* ranks the first candidate.
FrameRerankResponses ==
  {[kind |-> "results",
    results |-> <<[index |-> 0, has_score |-> TRUE, relevance_score |-> RelevanceScore]>>]}

\* A call of rerank_results(query, documents, 1) on the results of the
\* search just made.
RerankFound ==
  /\ last.op = "search"
  /\ \E api_key \in BOOLEAN, response \in FrameRerankResponses :
       last' = [op |-> "rerank", doc |-> "",
                args |-> [documents |-> last.ret, top_k |-> 1,
                          api_key |-> api_key, response |-> response],
                ret |-> rerank_results(last.ret, 1, api_key, response)]
  /\ UNCHANGED <<fs, serial, calls, novel>>

NextFrame ==
  \/ Next
  \/ \E d \in DocIds : SearchB(d)
  \/ RerankFound

SpecFrame == Init /\ [][NextFrame]_vars

(***************************************************************************)
(* One LongNovelGenerator object: generate, continue_writing and           *)
(* reset_novel in any order.  last.args.self is current_novel as the call  *)
(* found it.                                                               *)
(***************************************************************************)
InitNovel ==
  /\ fs = [d \in DocIds |-> NoDir]
  /\ serial = 0
  /\ calls = <<>>
  /\ novel = FreshNovel
  /\ last = NoCall

\* A call of generate(user_input).
Generate ==
  /\ Len(novel.chapter_titles) < MaxChapters
  /\ \E user_input \in UserInputs, chat \in ChatOutcomes :
       LET r == generate(novel, user_input, chat)
       IN /\ novel' = r.novel
          /\ last' = [op |-> "generate", doc |-> "",
                      args |-> [self |-> novel, user_input |-> user_input],
                      ret |-> r.ret]
  /\ UNCHANGED <<fs, serial, calls>>

\* A call of continue_writing(user_input).
ContinueWriting ==
  /\ Len(novel.chapter_titles) < MaxChapters
  /\ \E user_input \in UserInputs, chat \in ChatOutcomes :
       LET r == continue_writing(novel, user_input, chat)
       IN /\ novel' = r.novel
          /\ last' = [op |-> "continue_writing", doc |-> "",
                      args |-> [self |-> novel, user_input |-> user_input],
                      ret |-> r.ret]
  /\ UNCHANGED <<fs, serial, calls>>

\* A call of reset_novel().
ResetNovel ==
  /\ novel' = FreshNovel
  /\ last' = [op |-> "reset_novel", doc |-> "", args |-> [self |-> novel],
              ret |-> <<>>]
  /\ UNCHANGED <<fs, serial, calls>>

NextNovel == Generate \/ ContinueWriting \/ ResetNovel

SpecNovel == InitNovel /\ [][NextNovel]_vars

(***************************************************************************)
(* search_documents over a store of collections built by create_vector_db. *)
(***************************************************************************)
RagDocIds == {"d1", "d2", "d3"}

\* The ids the document database holds a document for.
RagDocuments == {"d1", "d2"}

\* A collection as a create_vector_db call with a key and a provider that
\* answers in full builds it.
Collection(d, content, chunk_size, ser) ==
  create_vector_db(NoDir, Text(content), [title |-> d], chunk_size, 0, ser,
                   TRUE, "ok", AllOf(ShapeFull, 1), "none").f

\* The stores searched: "a", "a", "a" beside "B."; "A.", "B.", "C." beside
\* "B."; and one with no collection for d2.
RagStores ==
  {[d \in RagDocIds |->
      CASE d = "d1" -> Collection(d, Paragraphs(3), 1, 1)
        [] d = "d2" -> Collection(d, <<"B", ".">>, 50, 2)
        [] OTHER -> NoDir],
   [d \in RagDocIds |->
      CASE d = "d1" -> Collection(d, TextABC, 5, 1)
        [] d = "d2" -> Collection(d, <<"B", ".">>, 50, 2)
        [] OTHER -> NoDir],
   [d \in RagDocIds |->
      CASE d = "d1" -> Collection(d, TextABC, 5, 1)
        [] OTHER -> NoDir]}

\* What the rerank provider does in search_documents: no key, the call
\* raises, or it names the last candidate first.
RagRerankers(n) ==
  {[api_key |-> FALSE, response |-> [kind |-> "raise", results |-> <<>>]],
   [api_key |-> TRUE, response |-> [kind |-> "raise", results |-> <<>>]],
   [api_key |-> TRUE,
    response |-> [kind |-> "results",
                  results |-> <<[index |-> n - 1, has_score |-> TRUE,
                                 relevance_score |-> RelevanceScore]>>]]}

\* The store and the arguments of a call: the query, the ids, top_k, what
\* the embedding provider gives for the query in each search and what the
\* rerank provider does.
InitRag ==
  /\ fs \in RagStores
  /\ serial = 2
  /\ calls = <<>>
  /\ novel = FreshNovel
  /\ \E query \in Queries \cup {<<>>}, top_k \in TopKs,
        doc_ids \in {<<>>, <<"d1">>, <<"d1", "d2">>, <<"d2", "d1">>, <<"d1", "d2", "d3">>} :
       \E query_vectors \in [RagDocIds -> QueryVectors(query)] :
         \E rerank \in RagRerankers(Len(SearchEach(fs, RagDocuments, query, doc_ids,
                                                   top_k, query_vectors, 1))) :
           last = [op |-> "input", doc |-> "",
                   args |-> [query |-> query, doc_ids |-> doc_ids, top_k |-> top_k,
                             query_vectors |-> query_vectors,
                             api_key |-> rerank.api_key, response |-> rerank.response,
                             reranker |-> rerank.api_key /\ rerank.response.kind # "raise"],
                   ret |-> <<>>]

\* The call of search_documents({"query": query, "doc_ids": doc_ids, "top_k":
\* top_k}) on the arguments drawn.
SearchDocuments ==
  /\ last.op = "input"
  /\ last' = [last EXCEPT
                !.op = "search_documents",
                !.ret = search_documents(fs, RagDocuments, last.args.query,
                                         last.args.doc_ids, last.args.top_k,
                                         last.args.query_vectors, last.args.api_key,
                                         last.args.response)]
  /\ UNCHANGED <<fs, serial, calls, novel>>

NextRag == SearchDocuments

SpecRag == InitRag /\ [][NextRag]_vars

(***************************************************************************)
(* Two calls of the store running at the same time.  Nothing in            *)
(* VectorDBManager takes a lock, so the calls interleave between their     *)
(* file operations: makedirs, each open(.., 'w') (which creates or         *)
(* truncates the file), each json.dump with the close that ends its with   *)
(* block, each os.path.exists, each read, listdir, each os.remove, rmdir.  *)
(* calls[p] is the call of process p: its arguments, the operation it is   *)
(* at (pc), what it has read so far (view), the state of the file it holds *)
(* open for writing (handle) and, once pc is "done", what it returned.     *)
(* was is the directory of its document when the two calls started.        *)
(*                                                                         *)
(* A handle is "own" while no one else touched the file since the open,    *)
(* "shared" when another call opened the same file for writing meanwhile   *)
(* (both then write the same inode from offset 0: what the file holds      *)
(* afterwards is one writer's text or a mix that does not parse), and      *)
(* "unlinked" when the file was removed meanwhile (the write then goes to  *)
(* an inode no name leads to).                                             *)
(***************************************************************************)
Procs == {1, 2}

\* os.path.join(self.persist_directory, doc_id): the directory a call works in.
DirOf(call) == call.doc

\* What a create_vector_db call writes into its three files.
Built(call) ==
  create_vector_db(NoDir, Text(TextABC), [title |-> call.doc], call.chunk_size, 0,
                   call.ser, TRUE, "ok", AllOf(call.shape, 1), "none").f

\* The file an open or dump step of create_vector_db works on.
FileOfPc(pc) ==
  CASE pc \in {"meta_open", "meta_dump"} -> "meta"
    [] pc \in {"chunks_open", "chunks_dump"} -> "chunks"
    [] OTHER -> "vectors"

\* The step after pc in create_vector_db.
AfterPc(pc) ==
  CASE pc = "makedirs" -> "meta_open"
    [] pc = "meta_open" -> "meta_dump"
    [] pc = "meta_dump" -> "chunks_open"
    [] pc = "chunks_open" -> "chunks_dump"
    [] pc = "chunks_dump" -> "vectors_open"
    [] pc = "vectors_open" -> "vectors_dump"
    [] OTHER -> "done"

\* The other calls that hold the file n of directory d open for writing.
WritersOf(p, d, n) ==
  {q \in Procs \ {p} :
     /\ calls[q].op = "create"
     /\ DirOf(calls[q]) = d
     /\ calls[q].pc \in {"meta_dump", "chunks_dump", "vectors_dump"}
     /\ FileOfPc(calls[q].pc) = n
     /\ calls[q].handle \in {"own", "shared"}}

\* os.makedirs(doc_vector_dir, exist_ok=True), line 109.
CreateMakedirs(p) ==
  /\ calls[p].op = "create" /\ calls[p].pc = "makedirs"
  /\ fs' = [fs EXCEPT ![DirOf(calls[p])].dir = TRUE]
  /\ calls' = [calls EXCEPT ![p].pc = "meta_open"]
  /\ UNCHANGED <<serial, last, novel>>

\* open(file, 'w') of lines 117, 134 and 145: FileNotFoundError when the
\* directory is gone, which ends the call at line 151 with False.
CreateOpen(p) ==
  /\ calls[p].op = "create"
  /\ calls[p].pc \in {"meta_open", "chunks_open", "vectors_open"}
  /\ LET d == DirOf(calls[p])
         n == FileOfPc(calls[p].pc)
         others == WritersOf(p, d, n)
     IN IF ~fs[d].dir
        THEN /\ calls' = [calls EXCEPT ![p].pc = "done", ![p].ret = FALSE]
             /\ UNCHANGED fs
        ELSE /\ fs' = [fs EXCEPT ![d][n] = Corrupt]
             /\ calls' = [q \in Procs |->
                            IF q = p
                            THEN [calls[p] EXCEPT
                                    !.pc = AfterPc(calls[p].pc),
                                    !.handle = IF others = {} THEN "own" ELSE "shared"]
                            ELSE IF q \in others
                            THEN [calls[q] EXCEPT !.handle = "shared"]
                            ELSE calls[q]]
  /\ UNCHANGED <<serial, last, novel>>

\* json.dump(.., f) and the close of the with block (lines 118-124, 135,
\* 146); after the last one the call returns True (line 150).
CreateDump(p) ==
  /\ calls[p].op = "create"
  /\ calls[p].pc \in {"meta_dump", "chunks_dump", "vectors_dump"}
  /\ LET d == DirOf(calls[p])
         n == FileOfPc(calls[p].pc)
         written == Built(calls[p])[n]
     IN /\ \/ /\ calls[p].handle = "own"
              /\ fs' = [fs EXCEPT ![d][n] = written]
           \/ /\ calls[p].handle = "shared"
              /\ \E file \in {written, Corrupt} : fs' = [fs EXCEPT ![d][n] = file]
           \/ /\ calls[p].handle = "unlinked"
              /\ UNCHANGED fs
        /\ calls' = [calls EXCEPT
                       ![p].pc = AfterPc(calls[p].pc),
                       ![p].handle = "none",
                       ![p].ret = IF calls[p].pc = "vectors_dump" THEN TRUE ELSE @]
  /\ UNCHANGED <<serial, last, novel>>

\* os.path.exists(doc_vector_dir) of delete_vector_db, line 555.
DeleteExists(p) ==
  /\ calls[p].op = "delete" /\ calls[p].pc = "exists"
  /\ calls' = IF fs[DirOf(calls[p])].dir
              THEN [calls EXCEPT ![p].pc = "listdir"]
              ELSE [calls EXCEPT ![p].pc = "done", ![p].ret = TRUE]
  /\ UNCHANGED <<fs, serial, last, novel>>

\* os.listdir(doc_vector_dir), line 558.
DeleteListdir(p) ==
  /\ calls[p].op = "delete" /\ calls[p].pc = "listdir"
  /\ LET d == DirOf(calls[p]) IN
     calls' = IF fs[d].dir
              THEN [calls EXCEPT ![p].pc = "remove",
                                 ![p].todo = {n \in FileNames : FileExists(fs[d][n])}]
              ELSE [calls EXCEPT ![p].pc = "done", ![p].ret = FALSE]
  /\ UNCHANGED <<fs, serial, last, novel>>

\* One os.remove of the loop of lines 558-559, in the order listdir gave.
DeleteRemove(p) ==
  /\ calls[p].op = "delete" /\ calls[p].pc = "remove"
  /\ \E n \in calls[p].todo :
       LET d == DirOf(calls[p]) IN
       IF FileExists(fs[d][n])
       THEN /\ fs' = [fs EXCEPT ![d][n] = Absent]
            /\ calls' = [q \in Procs |->
                           IF q = p THEN [calls[p] EXCEPT !.todo = @ \ {n}]
                           ELSE IF q \in WritersOf(p, d, n)
                           THEN [calls[q] EXCEPT !.handle = "unlinked"]
                           ELSE calls[q]]
       ELSE /\ calls' = [calls EXCEPT ![p].pc = "done", ![p].ret = FALSE]
            /\ UNCHANGED fs
  /\ UNCHANGED <<serial, last, novel>>

\* os.rmdir(doc_vector_dir), line 561: it raises when the directory is gone
\* or holds a file.
DeleteRmdir(p) ==
  /\ calls[p].op = "delete" /\ calls[p].pc = "remove" /\ calls[p].todo = {}
  /\ LET d == DirOf(calls[p]) IN
     IF fs[d].dir /\ \A n \in FileNames : ~FileExists(fs[d][n])
     THEN /\ fs' = [fs EXCEPT ![d] = NoDir]
          /\ calls' = [calls EXCEPT ![p].pc = "done", ![p].ret = TRUE]
     ELSE /\ calls' = [calls EXCEPT ![p].pc = "done", ![p].ret = FALSE]
          /\ UNCHANGED fs
  /\ UNCHANGED <<serial, last, novel>>

\* What a reader that saw the file n exist gets when it opens and loads it:
\* the file, or nothing that parses when it is gone by then.
ReadFile(d, n) == IF FileExists(fs[d][n]) THEN fs[d][n] ELSE Corrupt

\* os.path.exists(doc_vector_dir) of get_vector_db_status, line 502.
StatusDir(p) ==
  /\ calls[p].op = "status" /\ calls[p].pc = "dir"
  /\ calls' = IF fs[DirOf(calls[p])].dir
              THEN [calls EXCEPT ![p].pc = "chunks_exist", ![p].view.dir = TRUE]
              ELSE [calls EXCEPT ![p].pc = "done",
                                 ![p].ret = get_vector_db_status(calls[p].view)]
  /\ UNCHANGED <<fs, serial, last, novel>>

\* The three os.path.exists of lines 509-511, one at a time.
StatusExists(p) ==
  /\ calls[p].op = "status"
  /\ calls[p].pc \in {"chunks_exist", "vectors_exist", "meta_exist"}
  /\ LET d == DirOf(calls[p])
         n == CASE calls[p].pc = "chunks_exist" -> "chunks"
                [] calls[p].pc = "vectors_exist" -> "vectors"
                [] OTHER -> "meta"
         after == CASE calls[p].pc = "chunks_exist" -> "vectors_exist"
                    [] calls[p].pc = "vectors_exist" -> "meta_exist"
                    [] OTHER -> "read_chunks"
     IN calls' = [calls EXCEPT
                    ![p].pc = after,
                    ![p].view[n] = IF FileExists(fs[d][n]) THEN Corrupt ELSE Absent]
  /\ UNCHANGED <<fs, serial, last, novel>>

\* The guarded read of chunks.json without its try: the exception of a file
\* that is gone or half written leaves get_vector_db_status.
StatusReadChunksUnguarded(p) ==
  /\ calls[p].op = "status" /\ calls[p].pc = "read_chunks"
  /\ LET d == DirOf(calls[p]) IN
     calls' = IF FileExists(calls[p].view.chunks) /\ ReadFile(d, "chunks").st # "ok"
              THEN [calls EXCEPT ![p].pc = "done", ![p].ret = StatusRaised]
              ELSE [calls EXCEPT
                      ![p].pc = "read_meta",
                      ![p].view.chunks = IF FileExists(@) THEN ReadFile(d, "chunks") ELSE @]
  /\ UNCHANGED <<fs, serial, last, novel>>

\* The read of chunks.json when it was seen to exist (lines 517-523): any
\* exception is swallowed and the count stays 0.
StatusReadChunks(p) ==
  /\ calls[p].op = "status" /\ calls[p].pc = "read_chunks"
  /\ LET d == DirOf(calls[p]) IN
     calls' = [calls EXCEPT
                 ![p].pc = "read_meta",
                 ![p].view.chunks = IF FileExists(@) THEN ReadFile(d, "chunks") ELSE @]
  /\ UNCHANGED <<fs, serial, last, novel>>

\* The read of metadata.json when it was seen to exist (lines 525-530) and
\* the return of lines 532-541.
StatusReadMeta(p) ==
  /\ calls[p].op = "status" /\ calls[p].pc = "read_meta"
  /\ LET d == DirOf(calls[p])
         view == [calls[p].view EXCEPT
                    !.meta = IF FileExists(@) THEN ReadFile(d, "meta") ELSE @]
     IN calls' = [calls EXCEPT ![p].pc = "done", ![p].view = view,
                               ![p].ret = get_vector_db_status(view)]
  /\ UNCHANGED <<fs, serial, last, novel>>

\* os.path.exists(doc_vector_dir) of search_vector_db, line 326.
SearchDir(p) ==
  /\ calls[p].op = "search" /\ calls[p].pc = "dir"
  /\ calls' = IF fs[DirOf(calls[p])].dir
              THEN [calls EXCEPT ![p].pc = "chunks_exist", ![p].view.dir = TRUE]
              ELSE [calls EXCEPT ![p].pc = "done", ![p].ret = <<>>]
  /\ UNCHANGED <<fs, serial, last, novel>>

\* The two os.path.exists of line 334: the second is not made when the first
\* is false.
SearchExists(p) ==
  /\ calls[p].op = "search"
  /\ calls[p].pc \in {"chunks_exist", "vectors_exist"}
  /\ LET d == DirOf(calls[p])
         n == IF calls[p].pc = "chunks_exist" THEN "chunks" ELSE "vectors"
     IN calls' = IF FileExists(fs[d][n])
                 THEN [calls EXCEPT
                         ![p].pc = IF n = "chunks" THEN "vectors_exist" ELSE "load_chunks",
                         ![p].view[n] = Corrupt]
                 ELSE [calls EXCEPT ![p].pc = "done", ![p].ret = <<>>]
  /\ UNCHANGED <<fs, serial, last, novel>>

\* json.load of chunks.json (lines 340-341); an exception goes to line 379.
SearchLoadChunks(p) ==
  /\ calls[p].op = "search" /\ calls[p].pc = "load_chunks"
  /\ LET file == ReadFile(DirOf(calls[p]), "chunks") IN
     calls' = IF file.st = "ok"
              THEN [calls EXCEPT ![p].pc = "load_vectors", ![p].view.chunks = file]
              ELSE [calls EXCEPT ![p].pc = "fallback_load"]
  /\ UNCHANGED <<fs, serial, last, novel>>

\* json.load of vectors.json (lines 342-343) and, when it parses, the rest of
\* the try (lines 345-377).
SearchLoadVectors(p) ==
  /\ calls[p].op = "search" /\ calls[p].pc = "load_vectors"
  /\ LET file == ReadFile(DirOf(calls[p]), "vectors")
         view == [calls[p].view EXCEPT !.vectors = file]
     IN calls' = IF file.st = "ok"
                 THEN [calls EXCEPT
                         ![p].pc = "done", ![p].view = view,
                         ![p].ret = search_vector_db(view, calls[p].query, calls[p].top_k,
                                                     calls[p].query_vector)]
                 ELSE [calls EXCEPT ![p].pc = "fallback_load"]
  /\ UNCHANGED <<fs, serial, last, novel>>

\* The second load of chunks.json and the keyword search (lines 381-387).
SearchFallbackLoad(p) ==
  /\ calls[p].op = "search" /\ calls[p].pc = "fallback_load"
  /\ LET file == ReadFile(DirOf(calls[p]), "chunks") IN
     calls' = [calls EXCEPT
                 ![p].pc = "done",
                 ![p].ret = IF file.st = "ok"
                            THEN fallback_keyword_search(file.data, calls[p].query,
                                                         calls[p].top_k)
                            ELSE <<>>]
  /\ UNCHANGED <<fs, serial, last, novel>>

\* A call that has not started: the fields every call has.
NewCall(op, d, pc, ser, was) ==
  [op |-> op, doc |-> d, pc |-> pc, ser |-> ser, was |-> was,
   chunk_size |-> 0, shape |-> ShapeFull, query |-> <<>>, top_k |-> 0, query_vector |-> <<>>,
   handle |-> "none", todo |-> {}, view |-> NoDir, ret |-> <<>>]

\* The create_vector_db and delete_vector_db calls process p may make on d;
\* the embedding provider answers in full or one item short.
WriterCalls(p, d, was) ==
  {[NewCall("create", d, "makedirs", p, was) EXCEPT !.chunk_size = cs, !.shape = sh] :
     cs \in {5, 50},
     sh \in {ShapeFull, [kind |-> "data", dim |-> 2, delta |-> -1, missing |-> 0]}}
  \cup {NewCall("delete", d, "exists", p, was)}

\* The get_vector_db_status and search_vector_db calls process p may make on d.
ReaderCalls(p, d, was) ==
  {NewCall("status", d, "dir", p, was)}
  \cup {[NewCall("search", d, "dir", p, was) EXCEPT
           !.query = <<"b">>, !.top_k = 2, !.query_vector = qv] :
          qv \in {<<>>, Embed(2, <<"b">>)}}

\* Each directory is missing or holds a complete collection of three chunks
\* an earlier create_vector_db built.  The calls are two writers on different
\* ids, a writer and a reader on one id, or two writers on one id.
InitConc ==
  /\ fs \in [{"d1", "d2"} -> {NoDir, Collection("d0", TextABC, 5, 0)}]
  /\ serial = 2
  /\ novel = FreshNovel
  /\ last = NoCall
  /\ \/ calls \in {<<a, b>> : a \in WriterCalls(1, "d1", fs["d1"]),
                              b \in WriterCalls(2, "d2", fs["d2"])}
     \/ calls \in {<<a, b>> : a \in WriterCalls(1, "d1", fs["d1"]),
                              b \in ReaderCalls(2, "d1", fs["d1"])}
     \/ calls \in {<<a, b>> : a \in WriterCalls(1, "d1", fs["d1"]),
                              b \in WriterCalls(2, "d1", fs["d1"])}

NextConc ==
  \E p \in Procs :
    \/ CreateMakedirs(p)
    \/ CreateOpen(p)
    \/ CreateDump(p)
    \/ DeleteExists(p)
    \/ DeleteListdir(p)
    \/ DeleteRemove(p)
    \/ DeleteRmdir(p)
    \/ StatusDir(p)
    \/ StatusExists(p)
    \/ StatusReadChunks(p)
    \/ StatusReadMeta(p)
    \/ SearchDir(p)
    \/ SearchExists(p)
    \/ SearchLoadChunks(p)
    \/ SearchLoadVectors(p)
    \/ SearchFallbackLoad(p)

SpecConc == InitConc /\ [][NextConc]_vars

(***************************************************************************)
(* Properties.                                                             *)
(***************************************************************************)
\* The length of s[:k] for a list of n elements.
SliceLen(n, k) == IF k >= 0 THEN Min(k, n) ELSE Max(n + k, 0)

\* The persisted chunk list and vector list are readable, equally long and
\* agree on the id at every position.
Aligned(f) ==
  /\ f.chunks.st = "ok"
  /\ f.vectors.st = "ok"
  /\ Len(f.chunks.data) = Len(f.vectors.data)
  /\ \A i \in 1..Len(f.chunks.data) : f.vectors.data[i].id = f.chunks.data[i].id

CreateSucceeded == last.op = "create" /\ last.ret = TRUE

CreateFailed == last.op = "create" /\ last.ret = FALSE

\* C1: after a create_vector_db call that returned True, under every answer
\* of the embedding provider, the persisted chunks and vectors have the same
\* length and the same id at every position.
C1_ChunkVectorAlignment == CreateSucceeded => Aligned(fs[last.doc])

\* C2: after a create_vector_db call that returned False, whatever step
\* failed and whatever was there before, get_vector_db_status reports
\* exists = false.
C2_FailedCreateNotVisible ==
  CreateFailed => ~get_vector_db_status(fs[last.doc]).exists

\* The collection of directory f is gone: status reports exists = false and
\* every search returns the empty list.
Gone(f) ==
  /\ ~get_vector_db_status(f).exists
  /\ \A query \in Queries, top_k \in TopKs :
       \A query_vector \in QueryVectors(query) :
         search_vector_db(f, query, top_k, query_vector) = <<>>

\* C3 as stated: after delete_vector_db has returned (True or False), the
\* collection is gone.
C3_GoneAfterAnyDelete == last.op = "delete" => Gone(fs[last.doc])

\* C3, amended: after delete_vector_db has returned True the collection is
\* gone, and a collection that is gone stays gone over every step that is not
\* a create_vector_db call for that id.
C3_DeletionCompleteness ==
  [][\A d \in DocIds :
       (\/ last'.op = "delete" /\ last'.doc = d /\ last'.ret = TRUE
        \/ Gone(fs[d]) /\ ~(last'.op = "create" /\ last'.doc = d))
       => Gone(fs'[d])]_vars

\* A successful delete of a collection that existed.
C3_Witness == last.op = "delete" /\ last.ret = TRUE /\ last.args.existed

\* The scores of a result list are in non-increasing order.
SortedByScore(results) ==
  \A j \in 1..(Len(results) - 1) :
    results[j].score.num * results[j + 1].score.den
      >= results[j + 1].score.num * results[j].score.den

\* C4 as stated: for any integer top_k, search_vector_db returns at most
\* top_k results, sorted by score descending.
C4_TopKBoundAnyInteger ==
  last.op = "search" => Len(last.ret) <= last.args.top_k /\ SortedByScore(last.ret)

\* C4, amended: search_vector_db returns a list sorted by score descending
\* for any integer top_k, of length <= top_k when top_k >= 0.
C4_TopKBound ==
  last.op = "search" =>
    /\ SortedByScore(last.ret)
    /\ last.args.top_k >= 0 => Len(last.ret) <= last.args.top_k

\* A vector search cut to top_k results whose scores differ.
C4_Witness ==
  /\ last.op = "search"
  /\ last.args.query_vector # <<>>
  /\ fs[last.doc].chunks.st = "ok"
  /\ Len(last.ret) = last.args.top_k
  /\ Len(fs[last.doc].chunks.data) > last.args.top_k
  /\ Len(last.ret) >= 2
  /\ last.ret[1].score # last.ret[2].score

\* C5: _generate_vectors returns exactly one vector per chunk, in input
\* order, with the chunk's id, under every answer of the provider.
C5_OneVectorPerChunk ==
  last.op = "generate_vectors" =>
    /\ Len(last.ret) = Len(last.args.chunks)
    /\ \A i \in 1..Len(last.ret) : last.ret[i].id = last.args.chunks[i].id

\* The provider was asked and its response contains 'results'.
RerankAnswered == last.args.api_key /\ last.args.response.kind = "results"

\* C6: for top_k >= 0 and a rerank response that contains 'results',
\* rerank_results returns at most top_k elements, each a candidate.
C6_RerankBounded ==
  (last.op = "rerank" /\ last.args.top_k >= 0 /\ RerankAnswered) =>
    /\ Len(last.ret) <= last.args.top_k
    /\ \A j \in 1..Len(last.ret) :
         \E i \in 1..Len(last.args.documents) :
           last.ret[j].text = last.args.documents[i].text

\* C7: when the rerank provider is unavailable (no API key, the call raises,
\* the response has no 'results'), rerank_results returns candidates[:k]:
\* the same elements with the same scores in the same order.
C7_RerankFallback ==
  (last.op = "rerank" /\ ~RerankAnswered) =>
    /\ Len(last.ret) = SliceLen(Len(last.args.documents), last.args.top_k)
    /\ \A j \in 1..Len(last.ret) : last.ret[j] = last.args.documents[j]

\* A fallback that cuts the candidates, the provider having been called.
C7_Witness ==
  /\ last.op = "rerank"
  /\ last.args.api_key
  /\ last.args.response.kind = "noresults"
  /\ last.args.top_k >= 1
  /\ Len(last.args.documents) > last.args.top_k
  /\ Len(last.ret) = last.args.top_k

\* The text contains the query as a case-insensitive substring.
ContainsCI(text, query) ==
  \E o \in 0..(Len(text) - Len(query)) :
    \A j \in 1..Len(query) : LowerChar(text[o + j]) = LowerChar(query[j])

\* The positions of the chunks that contain the query.
MatchingPositions(chunks, query) ==
  {i \in 1..Len(chunks) : ContainsCI(chunks[i].text, query)}

\* The j-th element of a set of positions, in increasing order.
NthPosition(P, j) == CHOOSE i \in P : Cardinality({m \in P : m <= i}) = j

\* The search ran on an existing collection whose chunks are readable, with
\* an empty query embedding.
KeywordSearched ==
  /\ last.op = "search"
  /\ last.args.query_vector = <<>>
  /\ get_vector_db_status(fs[last.doc]).exists
  /\ fs[last.doc].chunks.st = "ok"

\* C8: with an empty query embedding, search_vector_db returns the chunks
\* that contain the query case-insensitively, each with score 0.8, in stored
\* order, cut as [:top_k]; no other chunk appears.
C8_KeywordFallback ==
  KeywordSearched =>
    LET chunks == fs[last.doc].chunks.data
        P == MatchingPositions(chunks, last.args.query)
    IN /\ Len(last.ret) = SliceLen(Cardinality(P), last.args.top_k)
       /\ \A j \in 1..Len(last.ret) :
            last.ret[j] = [text |-> chunks[NthPosition(P, j)].text,
                           score |-> [num |-> 16, den |-> 25],
                           metadata |-> chunks[NthPosition(P, j)].metadata]

\* A keyword search that matches a chunk in another case and leaves out a
\* chunk without the query.
C8_Witness ==
  /\ KeywordSearched
  /\ last.args.query = <<"b">>
  /\ Len(last.ret) = 1
  /\ last.ret[1].text = <<"B", ".">>
  /\ Len(fs[last.doc].chunks.data) = 3

\* The search ran on readable chunks and vectors with a non-empty query
\* embedding.
VectorSearched ==
  /\ last.op = "search"
  /\ last.args.query_vector # <<>>
  /\ fs[last.doc].chunks.st = "ok"
  /\ fs[last.doc].vectors.st = "ok"

\* The positions whose stored vector has the query vector's length and which
\* have a chunk.
MatchedPositions(chunks, vectors, query_vector) ==
  {i \in 1..Len(vectors) :
     i <= Len(chunks) /\ Len(vectors[i].vector) = Len(query_vector)}

\* C9: on the vector path every result is the chunk of a position whose
\* stored vector has the query vector's length, no position gives two
\* results, and the results are as many as those positions, cut as [:top_k]:
\* a vector of another length gives no result and no error.
C9_DimensionMismatchSkipped ==
  VectorSearched =>
    LET chunks == fs[last.doc].chunks.data
        M == MatchedPositions(chunks, fs[last.doc].vectors.data, last.args.query_vector)
    IN /\ Len(last.ret) = SliceLen(Cardinality(M), last.args.top_k)
       /\ \A j \in 1..Len(last.ret) :
            \E i \in M : /\ last.ret[j].text = chunks[i].text
                         /\ last.ret[j].metadata = chunks[i].metadata
       /\ \A j, k \in 1..Len(last.ret) :
            j # k => last.ret[j].metadata # last.ret[k].metadata

\* A vector search over stored vectors of which some have another length
\* than the query vector, all those of the same length being returned.
C9_Witness ==
  /\ VectorSearched
  /\ \E i \in 1..Len(fs[last.doc].vectors.data) :
       Len(fs[last.doc].vectors.data[i].vector) # Len(last.args.query_vector)
  /\ Len(last.ret) >= 1
  /\ Len(last.ret) = Cardinality(MatchedPositions(fs[last.doc].chunks.data,
                                                  fs[last.doc].vectors.data,
                                                  last.args.query_vector))

\* C10: after a create_vector_db call that returned True, all persisted
\* vectors have the same dimensionality.
C10_UniformDimension ==
  CreateSucceeded =>
    \A i, j \in 1..Len(fs[last.doc].vectors.data) :
      Len(fs[last.doc].vectors.data[i].vector) = Len(fs[last.doc].vectors.data[j].vector)

\* The number of chunks in batch b of n chunks: chunks[i:i+batch_size].
BatchLen(n, b) == Min(batch_size, n - (b - 1) * batch_size)

\* The call for batch b failed: no API key, the call raised, or the response
\* has no 'data'.
CallFailed(b) == ~last.args.api_key \/ last.args.shapes[b].kind # "data"

\* The response to batch b has 'data', and reading it raised at an item
\* without 'embedding'.
ReadFailed(b) ==
  LET len == BatchLen(Len(last.args.chunks), b)
      shape == last.args.shapes[b]
  IN /\ ~CallFailed(b)
     /\ shape.missing \in 1..Min(len, len + shape.delta)

\* The number of embeddings of the response to batch b that were taken.
TakenLen(b) ==
  LET len == BatchLen(Len(last.args.chunks), b)
      shape == last.args.shapes[b]
  IN IF CallFailed(b) THEN 0
     ELSE IF ReadFailed(b) THEN shape.missing - 1
     ELSE Max(0, Min(len, len + shape.delta))

\* The number of vectors batch b appends.
YieldLen(b) ==
  TakenLen(b)
  + (IF CallFailed(b) \/ ReadFailed(b) THEN BatchLen(Len(last.args.chunks), b) ELSE 0)

\* The number of vectors appended before batch b.
RECURSIVE YieldOffset(_)
YieldOffset(b) == IF b <= 1 THEN 0 ELSE YieldOffset(b - 1) + YieldLen(b - 1)

\* C11: _generate_vectors handles the chunks in consecutive batches of at
\* most batch_size in index order, each batch appending its vectors after
\* those of the batches before it.  A batch whose call failed (no API key,
\* exception, response without 'data') appends exactly one vector of
\* PlaceholderDim zeros per chunk of that batch, with the chunk's id; a batch
\* that was answered appends the provider's embeddings of the texts sent, in
\* order, with the chunks' ids, whatever happened to the other batches; a
\* batch whose response could not be read to the end appends, after the
\* embeddings read, one placeholder per chunk of that batch.
C11_BatchIsolation ==
  last.op = "generate_vectors" =>
    LET chunks == last.args.chunks
        n == Len(chunks)
    IN /\ Len(last.ret) = YieldOffset(NumBatches(n) + 1)
       /\ \A b \in 1..NumBatches(n) :
            LET lo == (b - 1) * batch_size
                off == YieldOffset(b)
                taken == TakenLen(b)
            IN /\ BatchLen(n, b) \in 1..batch_size
               /\ \A j \in 1..taken :
                    last.ret[off + j] =
                      [id |-> chunks[lo + j].id,
                       vector |-> Embed(last.args.shapes[b].dim, chunks[lo + j].text),
                       metadata |-> chunks[lo + j].metadata]
               /\ (CallFailed(b) \/ ReadFailed(b)) =>
                    \A j \in 1..BatchLen(n, b) :
                      last.ret[off + taken + j] =
                        [id |-> chunks[lo + j].id,
                         vector |-> [i \in 1..PlaceholderDim |-> 0],
                         metadata |-> chunks[lo + j].metadata]

\* Two batches of chunks with different texts: the call for the first
\* raised, the second was answered in full.
C11_Witness ==
  /\ last.op = "generate_vectors"
  /\ last.args.api_key
  /\ Len(last.args.chunks) = batch_size + 1
  /\ last.args.chunks[1].text # last.args.chunks[2].text
  /\ last.args.shapes[1].kind = "raise"
  /\ last.args.shapes[2] = ShapeFull
  /\ Len(last.ret) = batch_size + 1
  /\ last.ret[batch_size].vector = Placeholder
  /\ Len(last.ret[batch_size + 1].vector) = 2

\* _split_text has returned for the inputs in last.args.
SplitDone == last.op = "split_text"

\* The text has a character that is not whitespace.
HasNonWhitespace(text) == \E i \in 1..Len(text) : text[i] \notin Whitespace

\* C12: for every text and every chunk_size > 0, no chunk returned by
\* _split_text has an empty or whitespace-only text.
C12_NoEmptyChunks ==
  (SplitDone /\ last.args.chunk_size > 0) =>
    \A i \in 1..Len(last.ret) : HasNonWhitespace(last.ret[i].text)

\* A text with a blank paragraph between two paragraphs, split into the two.
C12_Witness ==
  /\ SplitDone
  /\ last.args.text = <<"a", NL, NL, " ", NL, NL, "b">>
  /\ last.args.chunk_size = 1
  /\ Len(last.ret) = 2

\* The chunk text is one sentence, closed by the '.' the chunker appends,
\* that without this '.' is longer than chunk_size.
SingleLongSentence(text, chunk_size) ==
  /\ ~Contains(text, <<".", " ">>)
  /\ ~Contains(text, <<NL, NL>>)
  /\ Len(text) - 1 > chunk_size

\* C13: for every text and chunk_size > 0, each chunk returned by
\* _split_text has a text of at most chunk_size characters, unless the chunk
\* is a single sentence that is by itself longer than chunk_size.
C13_SizeBound ==
  (SplitDone /\ last.args.chunk_size > 0) =>
    \A i \in 1..Len(last.ret) :
      \/ Len(last.ret[i].text) <= last.args.chunk_size
      \/ SingleLongSentence(last.ret[i].text, last.args.chunk_size)

\* C15: a text with a non-whitespace character that is shorter than
\* chunk_size gives exactly one chunk, whatever its paragraphs; an empty or
\* whitespace-only text gives the empty list for every chunk_size.
C15_ShortTextOneChunk ==
  SplitDone =>
    /\ (HasNonWhitespace(last.args.text) /\ Len(last.args.text) < last.args.chunk_size)
         => Len(last.ret) = 1
    /\ ~HasNonWhitespace(last.args.text) => last.ret = <<>>

\* Two paragraphs, together shorter than chunk_size, in one chunk.
C15_Witness ==
  /\ SplitDone
  /\ last.args.text = <<"a", NL, NL, "b">>
  /\ last.args.chunk_size = 5
  /\ Len(last.ret) = 1
  /\ last.ret[1].text = <<"a", NL, NL, "b">>

\* The letters of a text, in order: what is left without whitespace and '.'.
IsLetter(c) == c \notin Whitespace /\ c # "."

Letters(text) == SelectSeq(text, IsLetter)

\* The letters of the chunks from position i on, in list order.
RECURSIVE ChunkLetters(_, _)
ChunkLetters(chunks, i) ==
  IF i > Len(chunks) THEN <<>>
  ELSE Letters(chunks[i].text) \o ChunkLetters(chunks, i + 1)

\* C16: in the list _split_text returns, the chunk at position i (from 0)
\* has metadata.index = i, and the chunks are in document order: their
\* letters, read in list order, are the letters of the document in order.
C16_OrdinalsInDocumentOrder ==
  SplitDone =>
    /\ \A i \in 1..Len(last.ret) : last.ret[i].metadata.index = i - 1
    /\ ChunkLetters(last.ret, 1) = Letters(last.args.text)

\* Three chunks with different letters.
C16_Witness ==
  /\ SplitDone
  /\ Len(last.ret) = 3
  /\ Letters(last.ret[1].text) = <<"a">>
  /\ Letters(last.ret[2].text) = <<"b">>
  /\ last.ret[3].metadata.index = 2

\* C14: a create_vector_db call with chunk_size <= 0 fails: it returns
\* False and persists no chunk of its own (_split_text produces none).
C14_NonPositiveChunkSizeRejected ==
  (last.op = "create" /\ last.args.chunk_size <= 0) =>
    /\ last.ret = FALSE
    /\ ~(/\ fs[last.doc].chunks.st = "ok"
          /\ \E i \in 1..Len(fs[last.doc].chunks.data) :
               fs[last.doc].chunks.data[i].id[1] = serial)

\* The step is the first search after a create_vector_db call that returned
\* True on an empty store.
SearchAfterCreate ==
  /\ last.op = "create"
  /\ last.ret = TRUE
  /\ last'.op = "search"
  /\ last'.doc = last.doc

\* The step is search(doc_id, "B", 1) after
\* create(doc_id, "A.\n\nB.\n\nC.", meta, chunk_size=5, overlap=0).
RoundTripExample ==
  /\ SearchAfterCreate
  /\ last.args.content = Text(TextABC)
  /\ last.args.chunk_size = 5
  /\ last'.args.query = <<"B">>
  /\ last'.args.top_k = 1

\* After the create, status reports the collection with as many chunks as
\* the chunker made of the content.
StatusCountsChunks ==
  LET status == get_vector_db_status(fs[last.doc])
  IN /\ status.exists
     /\ status.chunks_count = NumChunks(last.args.content, last.args.chunk_size)

\* The search returned exactly one result, whose text contains "B".
OneResultWithB ==
  /\ Len(last'.ret) = 1
  /\ Contains(last'.ret[1].text, <<"B">>)

\* C17 as stated: after a successful create_vector_db, status reports the
\* chunker's number of chunks (3 in the example), and in the example
\* search(doc_id, "B", 1) returns exactly one result whose text contains "B".
\* It is a property of the steps from the create to the search, which change
\* last.op.
C17_RoundTripAlways ==
  [][(SearchAfterCreate => StatusCountsChunks)
     /\ (RoundTripExample =>
           (get_vector_db_status(fs[last.doc]).chunks_count = 3 /\ OneResultWithB))]_(last.op)

\* C17, amended: the same, the search result being promised only when no
\* query embedding is available, that is on the keyword path.
C17_RoundTrip ==
  [][(SearchAfterCreate => StatusCountsChunks)
     /\ (RoundTripExample =>
           /\ get_vector_db_status(fs[last.doc]).chunks_count = 3
           /\ last'.args.query_vector = <<>> => OneResultWithB)]_(last.op)

\* search(doc_id, "B", 1) on the keyword path over the three chunks of a
\* complete collection returned the chunk "B.".
C17_Witness ==
  /\ last.op = "search"
  /\ last.args.query = <<"B">>
  /\ last.args.top_k = 1
  /\ last.args.query_vector = <<>>
  /\ get_vector_db_status(fs[last.doc]).exists
  /\ get_vector_db_status(fs[last.doc]).chunks_count = 3
  /\ fs[last.doc].meta.st = "ok"
  /\ fs[last.doc].meta.data.chunk_size = 5
  /\ fs[last.doc].vectors.st = "ok"
  /\ Len(last.ret) = 1
  /\ last.ret[1].text = <<"B", ".">>

\* C18: get_vector_db_status never raises, whatever the three files hold;
\* when metadata.json is missing or does not yield a dict it returns the
\* defaults; and exists is exactly "chunks.json and vectors.json are
\* present", whatever metadata.json is.
C18_StatusTolerant ==
  \A d \in DocIds :
    (last.op = "status" /\ last.doc = d /\ fs[d].dir) =>
      /\ last.ret # StatusRaised
      /\ fs[d].meta.st # "ok" =>
           /\ last.ret.created_at = -1
           /\ last.ret.chunk_size = 0
           /\ last.ret.chunk_overlap = 0
           /\ last.ret.document_summary = "no_summary"
      /\ last.ret.exists = (FileExists(fs[d].chunks) /\ FileExists(fs[d].vectors))

\* The ids whose collection exists.
Existing == {d \in DocIds : get_vector_db_status(fs[d]).exists}

ReadOps == {"status", "search", "list", "rerank"}

\* C19: a call of get_vector_db_status, search_vector_db, get_all_vector_dbs
\* or rerank_results leaves the directory and the three files of every id as
\* they were, and a step that changes which collections exist is a call of
\* create_vector_db or delete_vector_db.
C19_ReadsChangeNothing ==
  [][/\ last'.op \in ReadOps => fs' = fs
     /\ Existing' # Existing => last'.op \in {"create", "delete"}]_vars

\* A search on an existing collection that returned a result, which was
\* then reranked, the collection being as it was.
C19_Witness ==
  /\ last.op = "rerank"
  /\ Len(last.args.documents) = 1
  /\ Len(last.ret) = 1
  /\ Existing = DocIds

\* The summary step of the create_vector_db call just made failed: no API
\* key, the call raised, or the body was malformed.
SummaryFailed ==
  \/ ~last.args.api_key
  \/ last.args.content.none
  \/ last.args.outcome # "ok"

\* The sentinel _generate_document_summary returns for that failure.
ExpectedSentinel ==
  IF ~last.args.api_key THEN SummaryNoKey
  ELSE IF last.args.content.none \/ last.args.outcome \in {"raise", "badchoice"}
  THEN SummaryError
  ELSE SummaryBadResponse

\* The call got as far as writing metadata.json.
MetadataWritten == last.args.fail \notin {"mkdir", "meta_open", "meta_dump"}

\* C20: the summary step does not decide what create_vector_db returns: it
\* returns True exactly when the content is a text and no file operation
\* failed, whatever the summary call did; and when the summary call had no
\* credentials, raised or returned a malformed body, the metadata.json
\* written by the call holds the sentinel as document_summary.
C20_SummaryNeverBlocksCreate ==
  last.op = "create" =>
    /\ last.ret = (last.args.fail = "none" /\ ~last.args.content.none)
    /\ (SummaryFailed /\ MetadataWritten) =>
         /\ fs[last.doc].meta.st = "ok"
         /\ fs[last.doc].meta.data.vector_db_created_at = serial
         /\ fs[last.doc].meta.data.document_summary = ExpectedSentinel

\* A create_vector_db call whose summary call raised, and that succeeded
\* with the sentinel stored and vectors from the provider.
C20_Witness ==
  /\ last.op = "create"
  /\ last.args.api_key
  /\ last.args.outcome = "raise"
  /\ last.ret = TRUE
  /\ fs[last.doc].meta.data.document_summary = SummaryError
  /\ fs[last.doc].vectors.st = "ok"
  /\ Len(fs[last.doc].vectors.data) = 3

\* C21: after any sequence of create_vector_db and delete_vector_db calls,
\* get_all_vector_dbs returns exactly the ids whose collection exists (those
\* for which get_vector_db_status reports exists = true).
C21_ListIsExisting == last.op = "list" => last.ret = Existing

\* C22: delete_vector_db is all or nothing: when it returns True no artifact
\* of the collection remains, and if there was no directory nothing changed;
\* when it returns False none of metadata.json, chunks.json and vectors.json
\* has been removed.
C22_DeleteAllOrNothing ==
  [][\A d \in DocIds :
       (last'.op = "delete" /\ last'.doc = d) =>
         /\ last'.ret = TRUE =>
              /\ \A n \in FileNames : ~FileExists(fs'[d][n])
              /\ ~fs[d].dir => fs'[d] = fs[d]
         /\ last'.ret = FALSE =>
              \A n \in FileNames : fs'[d][n] = fs[d][n]]_vars

\* The step is a create_vector_db call for d.
CreateStep(d) == last'.op = "create" /\ last'.doc = d

\* The call of the step failed before vectors.json was opened for writing:
\* at the metadata write, at the chunking (a None content) or at the chunk
\* write.
FailedBeforeVectors ==
  \/ last'.args.fail \in {"meta_open", "meta_dump", "chunks_open", "chunks_dump"}
  \/ last'.args.fail = "none" /\ last'.args.content.none

\* After the step the three files of d are those the call of the step wrote.
CompleteFromThisCall(d) ==
  /\ get_vector_db_status(fs'[d]).exists
  /\ fs'[d].meta.st = "ok"
  /\ fs'[d].meta.data.vector_db_created_at = serial'
  /\ fs'[d].chunks.st = "ok"
  /\ \A i \in 1..Len(fs'[d].chunks.data) : fs'[d].chunks.data[i].id[1] = serial'
  /\ fs'[d].chunks.data = split_text(last'.args.content.text, last'.args.chunk_size, 0, serial')
  /\ fs'[d].vectors.st = "ok"
  /\ \A i \in 1..Len(fs'[d].vectors.data) : fs'[d].vectors.data[i].id[1] = serial'

\* C23: when no artifact exists for an id and create_vector_db fails before
\* the vectors artifact is written, it returns False and status reports
\* exists = false; and on an id that does not exist but has leftovers of a
\* failed call, a create_vector_db call that meets no failure returns True
\* and leaves a complete collection written by that call.
C23_FailureBeforeVectorsSelfCorrecting ==
  [][\A d \in DocIds :
       CreateStep(d) =>
         /\ ((\A n \in FileNames : ~FileExists(fs[d][n])) /\ FailedBeforeVectors) =>
              /\ last'.ret = FALSE
              /\ ~get_vector_db_status(fs'[d]).exists
         /\ (/\ fs[d].dir
             /\ ~get_vector_db_status(fs[d]).exists
             /\ last'.args.fail = "none"
             /\ ~last'.args.content.none) =>
              /\ last'.ret = TRUE
              /\ CompleteFromThisCall(d)]_vars

\* A create_vector_db call that failed while writing chunks.json, leaving
\* metadata.json and a partial chunks.json but no vectors.json: the
\* collection does not exist.
C23_Witness ==
  /\ last.op = "create"
  /\ last.ret = FALSE
  /\ last.args.fail = "chunks_dump"
  /\ fs[last.doc].meta.st = "ok"
  /\ fs[last.doc].chunks = Corrupt
  /\ fs[last.doc].vectors = Absent
  /\ ~get_vector_db_status(fs[last.doc]).exists

\* C29: a create_vector_db call for an id whose collection exists that returns
\* failure leaves the persisted metadata, chunks and vectors of that id exactly
\* as they were before the call.
C29_FailedRebuildKeepsCollection ==
  [][\A d \in DocIds :
       (CreateStep(d) /\ get_vector_db_status(fs[d]).exists /\ last'.ret = FALSE) =>
         fs'[d] = fs[d]]_vars

\* C26: continue_writing called while no novel is in progress (the title is
\* empty) raises ValueError and leaves the generator as it was: no chapter is
\* generated.
C26_ContinueWithoutNovelRaisesValueError ==
  (last.op = "continue_writing" /\ last.args.self.title = "") =>
    /\ last.ret = [raised |-> "ValueError"]
    /\ novel = last.args.self

\* C30: after any calls of generate, continue_writing and reset_novel the
\* number of recorded chapter titles is current_chapter, and current_chapter
\* is 0 exactly when no chapter content is stored.
C30_TitlesCountChapters ==
  /\ Len(novel.chapter_titles) = novel.current_chapter
  /\ novel.current_chapter = 0 <=> novel.content = <<>>

\* Every chunk of the collection of d with its score for the query, best first.
AllScored(d) ==
  LET chunks == fs[d].chunks.data IN
  search_vector_db(fs[d], last.args.query, Len(chunks), last.args.query_vectors[d])

\* The results that came from d.
ResultsFrom(d) == SelectSeq(last.ret, LAMBDA r : r.doc_id = d)

\* A search_documents call with a query, over ids that all have a document
\* and a collection, with a positive top_k and no reranker.
MultiSearch ==
  /\ last.op = "search_documents"
  /\ last.args.query # <<>>
  /\ last.args.doc_ids # <<>>
  /\ last.args.top_k > 0
  /\ ~last.args.reranker
  /\ \A i \in 1..Len(last.args.doc_ids) :
       /\ last.args.doc_ids[i] \in RagDocuments
       /\ get_vector_db_status(fs[last.args.doc_ids[i]]).exists

Requested == {last.args.doc_ids[i] : i \in 1..Len(last.args.doc_ids)}

\* C25: with the reranker unavailable, search_documents over several existing
\* collections returns the top_k best chunks of their union: every result is
\* a chunk of the collection it is tagged with, the results are sorted by
\* score descending, and no chunk left out scores strictly higher than a
\* chunk returned.
C25_GlobalTopK ==
  (MultiSearch /\ \E d \in Requested : AllScored(d) # <<>>) =>
    /\ \A i \in 1..Len(last.ret) :
         /\ last.ret[i].doc_id \in Requested
         /\ \E j \in 1..Len(AllScored(last.ret[i].doc_id)) :
              /\ AllScored(last.ret[i].doc_id)[j].text = last.ret[i].text
              /\ AllScored(last.ret[i].doc_id)[j].score = last.ret[i].score
    /\ \A i \in 1..(Len(last.ret) - 1) : ScoreGE(last.ret[i].score, last.ret[i + 1].score)
    /\ \A d \in Requested :
         \A j \in (Len(ResultsFrom(d)) + 1)..Len(AllScored(d)) :
           \A i \in 1..Len(last.ret) :
             ScoreGE(last.ret[i].score, AllScored(d)[j].score)

\* Both calls have returned.
Finished == \A p \in Procs : calls[p].pc = "done"

\* What the call would have done to its directory and returned had it run
\* alone.
Alone(call) ==
  IF call.op = "create"
  THEN create_vector_db(call.was, Text(TextABC), [title |-> call.doc], call.chunk_size,
                        0, call.ser, TRUE, "ok", AllOf(call.shape, 1), "none")
  ELSE delete_vector_db(call.was, "none", {})

\* The call left its directory, and returned, as it would have alone.
SameAsAlone(p) ==
  /\ calls[p].ret = Alone(calls[p]).ret
  /\ fs[calls[p].doc] = Alone(calls[p]).f

\* C24: create_vector_db / delete_vector_db calls running concurrently on
\* different document ids leave, under every interleaving of their file
\* operations, each id as the call on it would have alone, and every
\* collection that was created with success is aligned.
C24_DifferentIdsDoNotInterfere ==
  (Finished /\ calls[1].doc # calls[2].doc) =>
    \A p \in Procs :
      /\ SameAsAlone(p)
      /\ (calls[p].op = "create" /\ calls[p].ret = TRUE) => Aligned(fs[calls[p].doc])

\* The chunk lists a reader of d may load whole: the one that was there when
\* the calls started and the ones the create_vector_db calls on d write.
WholeChunkLists(d) ==
  {calls[q].was.chunks.data : q \in {r \in Procs : calls[r].doc = d /\ calls[r].was.chunks.st = "ok"}}
  \cup {Built(calls[q]).chunks.data : q \in {r \in Procs : calls[r].doc = d /\ calls[r].op = "create"}}

\* The metadata a reader of d may load whole.
WholeMetadata(d) ==
  {calls[q].was.meta.data : q \in {r \in Procs : calls[r].doc = d /\ calls[r].was.meta.st = "ok"}}
  \cup {Built(calls[q]).meta.data : q \in {r \in Procs : calls[r].doc = d /\ calls[r].op = "create"}}

\* The get_vector_db_status call p returned not-found, or counts computed
\* from whole files.
StatusFromWholeFiles(p) ==
  LET ret == calls[p].ret
      d == calls[p].doc
  IN /\ ret # StatusRaised
     /\ \/ ret = [exists |-> FALSE]
        \/ /\ ret.chunks_count \in {0} \cup {Len(l) : l \in WholeChunkLists(d)}
           /\ ret.created_at \in {-1} \cup {m.vector_db_created_at : m \in WholeMetadata(d)}

\* The search_vector_db call p returned a list of at most top_k results, each
\* the text of a chunk of a whole chunk list.
SearchFromWholeFiles(p) ==
  LET ret == calls[p].ret
      d == calls[p].doc
  IN /\ Len(ret) <= calls[p].top_k
     /\ \A i \in 1..Len(ret) :
          \E l \in WholeChunkLists(d) : \E j \in 1..Len(l) : l[j].text = ret[i].text

\* C27: a get_vector_db_status or search_vector_db call that runs while a
\* create_vector_db or delete_vector_db call on the same id is in progress
\* never raises, wherever between the writer's file operations it reads: it
\* returns not-found or empty results, or results computed from whole files.
C27_ReadersTolerateWriter ==
  \A p \in Procs :
    (calls[p].pc = "done" /\ calls[p].op \in {"status", "search"}) =>
      IF calls[p].op = "status" THEN StatusFromWholeFiles(p) ELSE SearchFromWholeFiles(p)

\* A status call has returned that saw chunks.json whole and vectors.json
\* missing, while the create_vector_db call that builds the collection from
\* nothing is still between its writes.
C27_Witness ==
  /\ calls[1].op = "create" /\ calls[1].was = NoDir
  /\ calls[1].pc \in {"vectors_open", "vectors_dump"}
  /\ calls[2].op = "status" /\ calls[2].pc = "done"
  /\ calls[2].ret # [exists |-> FALSE]
  /\ calls[2].ret.chunks_exist /\ ~calls[2].ret.vectors_exist
  /\ calls[2].ret.chunks_count = 3

\* Both calls are create_vector_db calls for one id and both returned True.
BothCreated ==
  /\ calls[1].op = "create" /\ calls[2].op = "create"
  /\ calls[1].doc = calls[2].doc
  /\ Finished
  /\ calls[1].ret = TRUE /\ calls[2].ret = TRUE

\* chunks.json is the one call p wrote and vectors.json the one call q wrote.
MixedOf(p, q) ==
  /\ fs[calls[p].doc].chunks = Built(calls[p]).chunks
  /\ fs[calls[q].doc].vectors = Built(calls[q]).vectors

\* C28: when two concurrent create_vector_db calls for one id have both
\* returned True and the persisted chunks are those of one call while the
\* persisted vectors are those of the other, no position holds the same id
\* in both lists, and the lists differ in length when the calls were given
\* different chunk sizes.  (That such a state is reached is C28_Witness.)
C28_MixedCollectionMisaligned ==
  \A p \in Procs, q \in Procs :
    (p # q /\ BothCreated /\ MixedOf(p, q)) =>
      LET chunks == fs[calls[p].doc].chunks.data
          vectors == fs[calls[q].doc].vectors.data
      IN /\ \A i \in 1..Min(Len(chunks), Len(vectors)) : vectors[i].id # chunks[i].id
         /\ calls[p].chunk_size # calls[q].chunk_size => Len(chunks) # Len(vectors)

\* Both calls returned True; the three chunks are those of call 1
\* (chunk_size 5) and the one vector is that of call 2 (chunk_size 50).
C28_Witness ==
  /\ BothCreated
  /\ MixedOf(1, 2)
  /\ calls[1].chunk_size = 5 /\ calls[2].chunk_size = 50
  /\ Len(fs[calls[1].doc].chunks.data) = 3
  /\ Len(fs[calls[1].doc].vectors.data) = 1
  /\ fs[calls[1].doc].vectors.data[1].id # fs[calls[1].doc].chunks.data[1].id
====
